---- MODULE Spec2Model ----
(***************************************************************************)
(* A model of the SAGE pipeline fabric: the lock-free SPSC RingBuffer, the *)
(* connector (CAL) threads that feed it, and the order execution engine    *)
(* (POE) with its audit log.  Each part has its own specification over the *)
(* variables of that part; the variables of the other parts stay at their  *)
(* initial values.                                                         *)
(***************************************************************************)
EXTENDS Integers, Sequences, FiniteSets, TLC

\* ------------------------------------------------------------------ bounds
\* log2 of the RingBuffer template parameter N (a power of two).
LogN == 1
\* Width, in bits, of the modelled size_t index registers.
IdxBits == 2
\* Number of items the producer offers in a run.
MaxPush == 5
\* Largest max_count handed to try_pop_batch.
MaxBatch == 2
\* Number of messages the connector's socket delivers in a run.
MaxMsgs == 3
\* Number of heartbeats the connector's heartbeat thread emits in a run.
MaxBeats == 2
\* Number of order requests the execution engine pops in a run.
MaxOrders == 2
\* Number of decoded exchange events (ACK / FILL / REJECT) in a run.
MaxEvents == 2
\* Number of wake-ups of the background fsync thread in a run.
MaxSyncs == 1
\* Number of log_* calls a user of the audit log makes after the burst.
MaxAuditCalls == 3
\* Number of flush() calls the second thread of a user of the audit log makes.
MaxFlushes == 1
\* Width in bits of the risk engine's signed integers (int64_t), scaled.
IntBits == 5
\* Number of signals the risk engine pops in a run.
MaxSignals == 2
\* Number of record_pnl calls in a run.
MaxPnlCalls == 2
\* Number of trip / reset calls made by threads other than the heartbeat.
MaxOps == 2
\* Capacity of the risk-to-execution queue, scaled.
OutCap == 1
\* Width in bits of the order id counter (uint32_t in the program), scaled.
CounterBits == 3
\* Wall-clock second at which the execution engine starts.
StartupTs == 1
\* Number of market-data ticks the analytics engine pops in a run, after
\* the history it starts with.
MaxTicks == 4
\* Number of capacity queries the observer thread makes in a run.
MaxQueries == 1
\* Width in bits of a FixedPoint raw value (int64_t in the program), scaled.
FpBits == 15
\* Window of the RollingStats fed on its own (a power of two).
RollWindow == 2
\* Number of update calls made on it in a run.
MaxRollUpdates == 4
\* Times the audit log file is opened (runs of the engine on the same file)
MaxOpens == 3
\* log_* calls made on the audit log file over all runs
MaxLogWrites == 3
\* Number of finalizers registered with the shutdown manager in a run.
MaxHandlers == 2
\* Number of signal_shutdown invocations in a run.
MaxShutdownCalls == 3
\* Number of heartbeats the analytics engine forwards in a run.
MaxAdeBeats == 1
\* Capacity of the analytics engine's output queue, scaled.
AdeOutCap == 6

\* ------------------------------------------------------- RingBuffer<T, N>
N == 2 ^ LogN
MASK == N - 1
SizeMod == 2 ^ IdxBits

\* size_t arithmetic wraps in the register.
Add(a, b) == (a + b) % SizeMod
Sub(a, b) == (a - b + SizeMod) % SizeMod

RECURSIVE BitAnd(_, _)
BitAnd(a, b) ==
    IF a = 0 \/ b = 0 THEN 0
    ELSE (a % 2) * (b % 2) + 2 * BitAnd(a \div 2, b \div 2)

\* Physical slot of an index: index & MASK.
Slot(i) == BitAnd(i, MASK)

\* A slot whose element copy is in progress holds a partially written value.
TORN == -1

Min(a, b) == IF a < b THEN a ELSE b

\* Threads that call the producer interface of the queue: its producer, and
\* in the connector process also the heartbeat thread.
PushThreads == {"producer", "heartbeat"}

VARIABLES
    \* RingBuffer members
    head_, tail_, cached_tail_, cached_head_, buffer_,
    \* the pushing threads and the consumer thread (locals and position)
    prod, cons,
    \* history: items accepted by successful pushes, items handed out by pops
    pushed, popped,
    \* what the last try_push / try_pop / try_pop_batch decided, with the
    \* logical size (try_push, try_pop) or the number of published
    \* unconsumed items (try_pop_batch) at the instant it decided
    pushDec, popDec, batchDec

ringVars == <<head_, tail_, cached_tail_, cached_head_, buffer_, prod, cons,
              pushed, popped, pushDec, popDec, batchDec>>

\* Number of published and not yet consumed items.
Unconsumed == IF Len(pushed) > Len(popped) THEN Len(pushed) - Len(popped) ELSE 0

RingInit ==
    /\ head_ = 0
    /\ tail_ = 0
    /\ cached_tail_ = 0
    /\ cached_head_ = 0
    /\ buffer_ = [s \in 0 .. N - 1 |-> 0]
    /\ prod = [t \in PushThreads |->
                 [pc |-> "idle", blocking |-> FALSE, head |-> 0, item |-> 0,
                  used |-> FALSE, ret |-> FALSE]]
    /\ cons = [pc |-> "idle", blocking |-> FALSE, tail |-> 0, item |-> 0,
               max |-> 0, to_pop |-> 0, i |-> 0, out |-> <<>>]
    /\ pushed = <<>>
    /\ popped = <<>>
    /\ pushDec = [ok |-> TRUE, size |-> 0]
    /\ popDec = [ok |-> FALSE, size |-> 0]
    /\ batchDec = [count |-> 0, avail |-> 0, max |-> 0]

\* ---- producer: try_push / push_blocking

\* The full test of try_push: next_head - cached_tail_ > N.
IsFullOffByOne(next_head, tail) == Sub(next_head, tail) > N + 1
IsFull(next_head, tail) == Sub(next_head, tail) > N

\* Thread t calls try_push(item) or push_blocking(item).
push_call(t, blocking) ==
    /\ prod[t].pc = "idle"
    /\ Len(pushed) < MaxPush
    /\ prod' = [prod EXCEPT ![t].pc = "start", ![t].blocking = blocking,
                            ![t].item = Len(pushed) + 1, ![t].used = TRUE]
    /\ UNCHANGED <<head_, tail_, cached_tail_, cached_head_, buffer_, cons,
                   pushed, popped, pushDec, popDec, batchDec>>

\* head_.load(relaxed) and the test against the cached tail.
try_push_start(t) ==
    /\ prod[t].pc = "start"
    /\ IF IsFull(Add(head_, 1), cached_tail_)
       THEN /\ prod' = [prod EXCEPT ![t].pc = "refresh", ![t].head = head_]
            /\ UNCHANGED pushDec
       ELSE /\ prod' = [prod EXCEPT ![t].pc = "write", ![t].head = head_]
            /\ pushDec' = [ok |-> TRUE, size |-> Sub(head_, tail_)]
    /\ UNCHANGED <<head_, tail_, cached_tail_, cached_head_, buffer_, cons,
                   pushed, popped, popDec, batchDec>>

\* cached_tail_ = tail_.load(acquire) and the second test; a full queue
\* returns false (push_blocking pauses and calls try_push again).
try_push_refresh(t) ==
    /\ prod[t].pc = "refresh"
    /\ cached_tail_' = tail_
    /\ IF IsFull(Add(prod[t].head, 1), tail_)
       THEN /\ prod' = [prod EXCEPT ![t].pc = IF prod[t].blocking THEN "start"
                                                                 ELSE "idle",
                                    ![t].ret = FALSE]
            /\ pushDec' = [ok |-> FALSE, size |-> Sub(head_, tail_)]
       ELSE /\ prod' = [prod EXCEPT ![t].pc = "write"]
            /\ pushDec' = [ok |-> TRUE, size |-> Sub(head_, tail_)]
    /\ UNCHANGED <<head_, tail_, cached_head_, buffer_, cons,
                   pushed, popped, popDec, batchDec>>

\* buffer_[head & MASK] = item: the copy starts ...
try_push_write_begin(t) ==
    /\ prod[t].pc = "write"
    /\ buffer_' = [buffer_ EXCEPT ![Slot(prod[t].head)] = TORN]
    /\ prod' = [prod EXCEPT ![t].pc = "writing"]
    /\ UNCHANGED <<head_, tail_, cached_tail_, cached_head_, cons,
                   pushed, popped, pushDec, popDec, batchDec>>

\* ... and completes.
try_push_write_end(t) ==
    /\ prod[t].pc = "writing"
    /\ buffer_' = [buffer_ EXCEPT ![Slot(prod[t].head)] = prod[t].item]
    /\ prod' = [prod EXCEPT ![t].pc = "publish"]
    /\ UNCHANGED <<head_, tail_, cached_tail_, cached_head_, cons,
                   pushed, popped, pushDec, popDec, batchDec>>

\* head_.store(next_head, release); return true.
try_push_publish(t) ==
    /\ prod[t].pc = "publish"
    /\ head_' = Add(prod[t].head, 1)
    /\ pushed' = Append(pushed, prod[t].item)
    /\ prod' = [prod EXCEPT ![t].pc = "idle", ![t].ret = TRUE]
    /\ UNCHANGED <<tail_, cached_tail_, cached_head_, buffer_, cons,
                   popped, pushDec, popDec, batchDec>>

\* ---- consumer: try_pop / pop_blocking

\* The empty test of try_pop: cached_head_ == tail.
IsEmptyOffByOne(head, tail) == Add(head, 1) = tail
IsEmpty(head, tail) == head = tail

\* The consumer calls try_pop(item) or pop_blocking(item).
pop_call(blocking) ==
    /\ cons.pc = "idle"
    /\ Len(popped) < MaxPush
    /\ cons' = [cons EXCEPT !.pc = "start", !.blocking = blocking]
    /\ UNCHANGED <<head_, tail_, cached_tail_, cached_head_, buffer_, prod,
                   pushed, popped, pushDec, popDec, batchDec>>

\* tail_.load(relaxed) and the test against the cached head.
try_pop_start ==
    /\ cons.pc = "start"
    /\ IF IsEmpty(cached_head_, tail_)
       THEN /\ cons' = [cons EXCEPT !.pc = "refresh", !.tail = tail_]
            /\ UNCHANGED popDec
       ELSE /\ cons' = [cons EXCEPT !.pc = "read", !.tail = tail_]
            /\ popDec' = [ok |-> TRUE, size |-> Sub(head_, tail_)]
    /\ UNCHANGED <<head_, tail_, cached_tail_, cached_head_, buffer_, prod,
                   pushed, popped, pushDec, batchDec>>

\* cached_head_ = head_.load(acquire) and the second test; an empty queue
\* returns false (pop_blocking pauses and calls try_pop again).
try_pop_refresh ==
    /\ cons.pc = "refresh"
    /\ cached_head_' = head_
    /\ IF IsEmpty(head_, cons.tail)
       THEN /\ cons' = [cons EXCEPT !.pc = IF cons.blocking THEN "start" ELSE "idle"]
            /\ popDec' = [ok |-> FALSE, size |-> Sub(head_, tail_)]
       ELSE /\ cons' = [cons EXCEPT !.pc = "read"]
            /\ popDec' = [ok |-> TRUE, size |-> Sub(head_, tail_)]
    /\ UNCHANGED <<head_, tail_, cached_tail_, buffer_, prod,
                   pushed, popped, pushDec, batchDec>>

\* item = buffer_[tail & MASK]: the copy starts ...
try_pop_read_begin ==
    /\ cons.pc = "read"
    /\ cons' = [cons EXCEPT !.pc = "reading", !.item = buffer_[Slot(cons.tail)]]
    /\ UNCHANGED <<head_, tail_, cached_tail_, cached_head_, buffer_, prod,
                   pushed, popped, pushDec, popDec, batchDec>>

\* ... and completes: the value is whole only if the slot did not change
\* under the copy.
try_pop_read_end ==
    /\ cons.pc = "reading"
    /\ cons' = [cons EXCEPT !.pc = "advance",
                            !.item = IF buffer_[Slot(cons.tail)] = cons.item
                                     THEN cons.item ELSE TORN]
    /\ UNCHANGED <<head_, tail_, cached_tail_, cached_head_, buffer_, prod,
                   pushed, popped, pushDec, popDec, batchDec>>

\* tail_.store(tail + 1, release); return true.
try_pop_advance ==
    /\ cons.pc = "advance"
    /\ tail_' = Add(cons.tail, 1)
    /\ popped' = Append(popped, cons.item)
    /\ cons' = [cons EXCEPT !.pc = "idle"]
    /\ UNCHANGED <<head_, cached_tail_, cached_head_, buffer_, prod,
                   pushed, pushDec, popDec, batchDec>>

\* ---- consumer: try_pop_batch

\* The consumer calls try_pop_batch(items, max_count).
pop_batch_call(max_count) ==
    /\ cons.pc = "idle"
    /\ Len(popped) < MaxPush
    /\ cons' = [cons EXCEPT !.pc = "bstart", !.max = max_count]
    /\ UNCHANGED <<head_, tail_, cached_tail_, cached_head_, buffer_, prod,
                   pushed, popped, pushDec, popDec, batchDec>>

\* tail_.load(relaxed), head_.load(acquire), available and to_pop; an
\* empty queue returns 0.
try_pop_batch_start ==
    /\ cons.pc = "bstart"
    /\ LET available == Sub(head_, tail_)
           to_pop == IF available < cons.max THEN available ELSE cons.max
       IN /\ cons' = [cons EXCEPT !.pc = IF to_pop = 0 THEN "idle" ELSE "bcopy",
                                  !.tail = tail_, !.to_pop = to_pop,
                                  !.i = 0, !.out = <<>>]
          /\ batchDec' = [count |-> to_pop, avail |-> Unconsumed, max |-> cons.max]
    /\ UNCHANGED <<head_, tail_, cached_tail_, cached_head_, buffer_, prod,
                   pushed, popped, pushDec, popDec>>

\* items[i] = buffer_[(tail + i) & MASK], one element per step.
try_pop_batch_copy ==
    /\ cons.pc = "bcopy"
    /\ cons.i < cons.to_pop
    /\ cons' = [cons EXCEPT !.i = cons.i + 1,
                            !.out = Append(cons.out,
                                           buffer_[Slot(Add(cons.tail, cons.i))])]
    /\ UNCHANGED <<head_, tail_, cached_tail_, cached_head_, buffer_, prod,
                   pushed, popped, pushDec, popDec, batchDec>>

\* tail_.store(tail + to_pop, release); return to_pop.
try_pop_batch_advance ==
    /\ cons.pc = "bcopy"
    /\ cons.i = cons.to_pop
    /\ tail_' = Add(cons.tail, cons.to_pop)
    /\ popped' = popped \o cons.out
    /\ cons' = [cons EXCEPT !.pc = "idle"]
    /\ UNCHANGED <<head_, cached_tail_, cached_head_, buffer_, prod,
                   pushed, pushDec, popDec, batchDec>>

\* ------------------------------------------------- connector (CAL) process

VARIABLES
    \* process_message: in_call (a call awaits try_push), g_sequence and the
    \* metrics g_messages_received, g_messages_dropped, g_validation_errors
    cal,
    \* heartbeat_thread: heartbeat_seq
    heartbeat_seq

calVars == <<cal, heartbeat_seq>>

CalInit ==
    /\ cal = [in_call |-> FALSE, g_sequence |-> 0, received |-> 0,
              dropped |-> 0, errors |-> 0]
    /\ heartbeat_seq = 0

\* The socket thread (WebSocketClient::io_loop) hands a message to the
\* callback process_message: a message that does not parse returns, one
\* that fails validation is counted, a valid one is pushed on
\* g_cal_to_ade_buffer.
process_message(parses, valid) ==
    /\ ~cal.in_call
    /\ cal.g_sequence + cal.errors < MaxMsgs
    /\ IF parses /\ valid
       THEN /\ cal' = [cal EXCEPT !.in_call = TRUE, !.g_sequence = @ + 1]
            /\ push_call("producer", FALSE)
       ELSE /\ cal' = [cal EXCEPT !.errors = IF parses THEN @ + 1 ELSE @]
            /\ parses
            /\ UNCHANGED ringVars
    /\ UNCHANGED heartbeat_seq

\* process_message after try_push has returned: a full queue drops the
\* message and counts it, otherwise the message counts as received.
process_message_return ==
    /\ cal.in_call
    /\ prod["producer"].pc = "idle"
    /\ cal' = [cal EXCEPT !.in_call = FALSE,
                          !.dropped = IF prod["producer"].ret THEN @ ELSE @ + 1,
                          !.received = IF prod["producer"].ret THEN @ + 1 ELSE @]
    /\ UNCHANGED <<ringVars, heartbeat_seq>>

\* The connector's heartbeat thread wakes up, builds a heartbeat message and
\* pushes it on the same g_cal_to_ade_buffer (best effort).
heartbeat_thread_push ==
    /\ heartbeat_seq < MaxBeats
    /\ heartbeat_seq' = heartbeat_seq + 1
    /\ push_call("heartbeat", FALSE)
    /\ UNCHANGED cal

\* The analytics side drains the queue with try_pop_batch(batch, BATCH_SIZE).
process_batch == pop_batch_call(MaxBatch)

\* ------------------------------------------- order execution engine (POE)

\* AuditLog::FLUSH_INTERVAL
FLUSH_INTERVAL == 100

\* AuditLog::ENTRY_SIZE, the size of the line buffer
ENTRY_SIZE == 256

\* sizeof(safe_reason) in AuditLog::log_reject
SAFE_REASON_SIZE == 64

\* Length of the "%Y-%m-%dT%H:%M:%SZ" timestamp.
TIMESTAMP_LEN == 20

VARIABLES
    \* ShutdownManager::shutdown_requested_
    shutdown_requested_,
    \* OrderIDGenerator::counter_ (uint32_t)
    counter_,
    \* g_audit_log: is_open (file_.is_open()), file (the records appended, in
    \* order), flushed (how many of them left the stream buffer for the
    \* kernel), durable (how many are on stable storage), pending_writes_,
    \* entries_logged_, truncation_count_, sync_count_
    audit,
    \* the main thread: pc, exchange_order_id, send_success
    main,
    \* position of fsync_thread and of heartbeat_thread
    sync_pc, hb_pc,
    \* g_orders_sent, g_orders_failed
    metrics,
    \* what was handed to the transport: <<order id, result of send>>
    wire,
    \* number of exchange events handled
    events

poeVars == <<shutdown_requested_, counter_, audit, main, sync_pc, hb_pc,
             metrics, wire, events>>

PoeState(open) ==
    /\ shutdown_requested_ = FALSE
    /\ counter_ = 0
    /\ audit = [is_open |-> open, file |-> <<>>, flushed |-> 0, durable |-> 0,
                pending_writes_ |-> 0, entries_logged_ |-> 0,
                truncation_count_ |-> 0, sync_count_ |-> 0]
    /\ main = [pc |-> "loop", id |-> 0, send_success |-> FALSE]
    /\ sync_pc = "check"
    /\ hb_pc = "check"
    /\ metrics = [sent |-> 0, failed |-> 0]
    /\ wire = <<>>
    /\ events = 0

\* The constructor opens the file in append mode; the open can fail.
PoeInit == \E open \in BOOLEAN : PoeState(open)

\* OrderIDGenerator::generate: (startup_ts_ << width) | count.
OrderId(count) == StartupTs * (2 ^ CounterBits) + (count % (2 ^ CounterBits))

\* Number of characters "%llu" prints for id.
RECURSIVE Digits(_)
Digits(id) == IF id < 10 THEN 1 ELSE 1 + Digits(id \div 10)

\* What snprintf returns for "<timestamp>|EVENT|<id>[|<fields>]\n": the
\* length of the whole line, whether or not it fits the buffer.
LineLen(ev, id, msg) ==
    TIMESTAMP_LEN + 1 + Len(ev) + 1 + Digits(id)
        + (IF ev = "SENT" THEN 0 ELSE 1 + Len(msg)) + 1

\* A formatted line: event, order id, the fields after the id, the length
\* the formatting returned, and whether the [TRUNC] marker ends the line.
Record(ev, id, msg) ==
    [ev |-> ev, id |-> id, msg |-> msg, len |-> LineLen(ev, id, msg),
     trunc |-> FALSE]

\* The fields of the order, ack and fill the engine's tests use.
ORDER_FIELDS == "1|BUY|100.00000000|1.00000000"
ACK_ID == "EX123"
FILL_FIELDS == "100|45001.50000000|0.50000000"

write_entry_late(a, rec) ==
    LET a1 == [a EXCEPT !.file = Append(@, rec),
                        !.entries_logged_ = @ + 1,
                        !.pending_writes_ = @ + 1]
    IN IF a1.pending_writes_ > FLUSH_INTERVAL
       THEN [a1 EXCEPT !.flushed = Len(a1.file), !.pending_writes_ = 0]
       ELSE a1
\* AuditLog::write_entry: append, count, flush every FLUSH_INTERVAL entries.
write_entry(a, rec) ==
    LET a1 == [a EXCEPT !.file = Append(@, rec),
                        !.entries_logged_ = @ + 1,
                        !.pending_writes_ = @ + 1]
    IN IF a1.pending_writes_ >= FLUSH_INTERVAL
       THEN [a1 EXCEPT !.flushed = Len(a1.file), !.pending_writes_ = 0]
       ELSE a1

\* AuditLog::write_entry_safe: a line that does not fit the buffer is cut to
\* buffer_size - 1 bytes ending in the marker, and counted.
write_entry_safe(a, rec) ==
    IF rec.len >= ENTRY_SIZE
    THEN write_entry([a EXCEPT !.truncation_count_ = @ + 1],
                     [rec EXCEPT !.len = ENTRY_SIZE - 1, !.trunc = TRUE])
    ELSE write_entry(a, rec)

log_order_dropped(a, id) == a
log_order(a, id) ==
    IF ~a.is_open THEN a ELSE write_entry(a, Record("ORDER", id, ORDER_FIELDS))

log_sent(a, id) ==
    IF ~a.is_open THEN a ELSE write_entry_safe(a, Record("SENT", id, ""))

log_ack(a, id) ==
    IF ~a.is_open THEN a ELSE write_entry_safe(a, Record("ACK", id, ACK_ID))

log_fill(a, id) ==
    IF ~a.is_open THEN a
    ELSE write_entry_safe(a, Record("FILL", id, FILL_FIELDS))

\* strncpy(safe_reason, reason, sizeof(safe_reason) - 1)
SafeReason(reason) ==
    IF Len(reason) < SAFE_REASON_SIZE THEN reason
    ELSE SubSeq(reason, 1, SAFE_REASON_SIZE - 1)

log_reject_unflushed(a, id, reason) ==
    IF ~a.is_open THEN a
    ELSE [a EXCEPT !.file = Append(@, Record("REJECT", id, SafeReason(reason)))]
\* AuditLog::log_reject cuts the reason to the size of safe_reason, writes
\* the record itself and flushes at once.
log_reject(a, id, reason) ==
    IF ~a.is_open THEN a
    ELSE [a EXCEPT !.file = Append(@, Record("REJECT", id, SafeReason(reason))),
                   !.flushed = Len(a.file) + 1]

log_error(a, id, error_msg) ==
    IF ~a.is_open THEN a
    ELSE write_entry_safe(a, Record("ERROR", id, error_msg))

\* AuditLog::flush: file_.flush() hands the stream buffer to the kernel.
flush(a) ==
    IF ~a.is_open THEN a
    ELSE [a EXCEPT !.flushed = Len(a.file), !.pending_writes_ = 0]

\* AuditLog::sync: file_.flush(), then rdbuf()->pubsync(), which again
\* writes the stream buffer out to the kernel; nothing asks the kernel to
\* write the file to the device.
sync(a) ==
    IF ~a.is_open THEN a
    ELSE [a EXCEPT !.flushed = Len(a.file), !.sync_count_ = @ + 1,
                   !.pending_writes_ = 0]

\* AuditLog::~AuditLog: sync, then close.
destroy(a) == IF ~a.is_open THEN a ELSE [sync(a) EXCEPT !.is_open = FALSE]

\* main loop: try_pop hands over an ORDER_REQUEST; process_order issues the
\* order id and logs the intent.
process_order_log_order ==
    /\ main.pc = "loop"
    /\ ~shutdown_requested_
    /\ counter_ < MaxOrders
    /\ counter_' = (counter_ + 1) % (2 ^ CounterBits)
    /\ audit' = log_order(audit, OrderId(counter_))
    /\ main' = [main EXCEPT !.pc = "send", !.id = OrderId(counter_)]
    /\ UNCHANGED <<shutdown_requested_, sync_pc, hb_pc, metrics, wire, events>>

\* process_order: encode and send_to_exchange; the transport answers true
\* or false.
process_order_send(ok) ==
    /\ main.pc = "send"
    /\ wire' = Append(wire, <<main.id, ok>>)
    /\ main' = [main EXCEPT !.pc = "sent", !.send_success = ok]
    /\ UNCHANGED <<shutdown_requested_, counter_, audit, sync_pc, hb_pc,
                   metrics, events>>

\* process_order: log SENT and count it, or log ERROR SEND_FAILED and count
\* the failure; back to the main loop.
process_order_log_result ==
    /\ main.pc = "sent"
    /\ IF main.send_success
       THEN /\ audit' = log_sent(audit, main.id)
            /\ metrics' = [metrics EXCEPT !.sent = @ + 1]
       ELSE /\ audit' = log_error(audit, main.id, "SEND_FAILED")
            /\ metrics' = [metrics EXCEPT !.failed = @ + 1]
    /\ main' = [main EXCEPT !.pc = "loop"]
    /\ UNCHANGED <<shutdown_requested_, counter_, sync_pc, hb_pc, wire, events>>

\* main loop: try_pop hands over a SHUTDOWN message; break.
main_shutdown_message ==
    /\ main.pc = "loop"
    /\ ~shutdown_requested_
    /\ main' = [main EXCEPT !.pc = "join_sync"]
    /\ UNCHANGED <<shutdown_requested_, counter_, audit, sync_pc, hb_pc,
                   metrics, wire, events>>

\* main loop: the shutdown flag is set; leave the loop.
main_loop_exit ==
    /\ main.pc = "loop"
    /\ shutdown_requested_
    /\ main' = [main EXCEPT !.pc = "join_sync"]
    /\ UNCHANGED <<shutdown_requested_, counter_, audit, sync_pc, hb_pc,
                   metrics, wire, events>>

\* sync_thread.join()
main_join_sync ==
    /\ main.pc = "join_sync"
    /\ sync_pc = "done"
    /\ main' = [main EXCEPT !.pc = "join_hb"]
    /\ UNCHANGED <<shutdown_requested_, counter_, audit, sync_pc, hb_pc,
                   metrics, wire, events>>

\* hb_thread.join()
main_join_hb ==
    /\ main.pc = "join_hb"
    /\ hb_pc = "done"
    /\ main' = [main EXCEPT !.pc = "final_sync"]
    /\ UNCHANGED <<shutdown_requested_, counter_, audit, sync_pc, hb_pc,
                   metrics, wire, events>>

\* The final g_audit_log.sync() of main.
main_final_sync ==
    /\ main.pc = "final_sync"
    /\ audit' = sync(audit)
    /\ main' = [main EXCEPT !.pc = "return"]
    /\ UNCHANGED <<shutdown_requested_, counter_, sync_pc, hb_pc, metrics,
                   wire, events>>

\* return 0: the static g_audit_log is destroyed and the process exits.
main_return ==
    /\ main.pc = "return"
    /\ audit' = destroy(audit)
    /\ main' = [main EXCEPT !.pc = "exited"]
    /\ UNCHANGED <<shutdown_requested_, counter_, sync_pc, hb_pc, metrics,
                   wire, events>>

\* fsync_thread: the loop test.
fsync_thread_check ==
    /\ sync_pc = "check"
    /\ shutdown_requested_ \/ audit.sync_count_ < MaxSyncs
    /\ sync_pc' = IF shutdown_requested_ THEN "done" ELSE "sleep"
    /\ UNCHANGED <<shutdown_requested_, counter_, audit, main, hb_pc, metrics,
                   wire, events>>

\* fsync_thread: after the sleep, g_audit_log.sync().
fsync_thread_sync ==
    /\ sync_pc = "sleep"
    /\ audit' = sync(audit)
    /\ sync_pc' = "check"
    /\ UNCHANGED <<shutdown_requested_, counter_, main, hb_pc, metrics, wire,
                   events>>

\* heartbeat_thread: the loop test.
heartbeat_thread_check ==
    /\ hb_pc = "check"
    /\ hb_pc' = IF shutdown_requested_ THEN "done" ELSE "sleep"
    /\ UNCHANGED <<shutdown_requested_, counter_, audit, main, sync_pc,
                   metrics, wire, events>>

\* heartbeat_thread: after the sleep, print the stats and g_audit_log.flush().
heartbeat_thread_flush ==
    /\ hb_pc = "sleep"
    /\ audit' = flush(audit)
    /\ hb_pc' = "check"
    /\ UNCHANGED <<shutdown_requested_, counter_, main, sync_pc, metrics,
                   wire, events>>

\* SIGINT / SIGTERM: signal_handler runs signal_shutdown, which sets the
\* flag (compare-and-set) and runs the registered finalizer, the audit sync.
signal_shutdown ==
    /\ main.pc # "exited"
    /\ ~shutdown_requested_
    /\ shutdown_requested_' = TRUE
    /\ audit' = sync(audit)
    /\ UNCHANGED <<counter_, main, sync_pc, hb_pc, metrics, wire, events>>

\* The kernel writes back part of what it holds of the file.
os_writeback ==
    /\ \E n \in audit.durable + 1 .. audit.flushed :
          audit' = [audit EXCEPT !.durable = n]
    /\ UNCHANGED <<shutdown_requested_, counter_, main, sync_pc, hb_pc,
                   metrics, wire, events>>

\* Order ids the transport accepted.
AcceptedIds == {wire[i][1] : i \in {j \in 1 .. Len(wire) : wire[j][2]}}

\* A decoded exchange event for an order the exchange received is routed,
\* between two requests, to the audit log.
on_exchange_event(kind, id) ==
    /\ main.pc = "loop"
    /\ events < MaxEvents
    /\ id \in AcceptedIds
    /\ events' = events + 1
    /\ audit' = CASE kind = "ACK" -> log_ack(audit, id)
                  [] kind = "FILL" -> log_fill(audit, id)
                  [] kind = "REJECT" -> log_reject(audit, id, "EXCHANGE")
    /\ UNCHANGED <<shutdown_requested_, counter_, main, sync_pc, hb_pc,
                   metrics, wire>>

\* ------------------------------------------- the audit log used directly

\* A user of one AuditLog object, as the durability tests are: a logging
\* thread that calls log_*, and a second thread that calls flush and sync.
\* driver: calls (log_* calls made after the burst), last and text (the
\* event and the message of the last one), flushes (flush calls made).
VARIABLES driver

auditVars == <<driver>>

DriverInit == driver = [calls |-> 0, last |-> "none", text |-> "", flushes |-> 0]

\* The log after a burst of b < FLUSH_INTERVAL calls of log_sent on a fresh
\* open log, with no flush in between.
Burst(b) ==
    [is_open |-> TRUE,
     file |-> [i \in 1 .. b |-> Record("SENT", OrderId(0), "")],
     flushed |-> 0, durable |-> 0, pending_writes_ |-> b,
     entries_logged_ |-> b, truncation_count_ |-> 0, sync_count_ |-> 0]

\* The longest burst that leaves room for the calls that follow to reach
\* and pass the flush interval.
AuditBurst == FLUSH_INTERVAL - MaxAuditCalls + 1

AuditInit ==
    /\ shutdown_requested_ = FALSE
    /\ counter_ = 0
    /\ \E b \in {0, AuditBurst} : audit = Burst(b)
    /\ main = [pc |-> "loop", id |-> 0, send_success |-> FALSE]
    /\ sync_pc = "check"
    /\ hb_pc = "check"
    /\ metrics = [sent |-> 0, failed |-> 0]
    /\ wire = <<>>
    /\ events = 0
    /\ DriverInit

\* n times the character X.
RECURSIVE Rep(_)
Rep(n) ==
    IF n = 0 THEN ""
    ELSE IF n % 2 = 0 THEN LET half == Rep(n \div 2) IN half \o half
    ELSE "X" \o Rep(n - 1)

\* Messages a caller passes: two short ones, 200 identical characters, and
\* the two around the length at which an ERROR line fills the buffer.
AuditTexts(id) ==
    {"INSUFFICIENT_FUNDS", "CONNECTION_LOST", Rep(200),
     Rep(ENTRY_SIZE - 1 - LineLen("ERROR", id, "")),
     Rep(ENTRY_SIZE - LineLen("ERROR", id, ""))}

\* The logging thread calls one log_* method.
audit_log_call(kind, id, text) ==
    /\ driver.calls < MaxAuditCalls
    /\ audit' = CASE kind = "ORDER" -> log_order(audit, id)
                  [] kind = "SENT" -> log_sent(audit, id)
                  [] kind = "ACK" -> log_ack(audit, id)
                  [] kind = "FILL" -> log_fill(audit, id)
                  [] kind = "REJECT" -> log_reject(audit, id, text)
                  [] kind = "ERROR" -> log_error(audit, id, text)
    /\ driver' = [driver EXCEPT !.calls = @ + 1, !.last = kind,
                                !.text = IF kind \in {"REJECT", "ERROR"}
                                         THEN text ELSE ""]
    /\ UNCHANGED <<shutdown_requested_, counter_, main, sync_pc, hb_pc,
                   metrics, wire, events>>

\* The second thread calls flush().
audit_flush_call ==
    /\ driver.flushes < MaxFlushes
    /\ audit' = flush(audit)
    /\ driver' = [driver EXCEPT !.flushes = @ + 1]
    /\ UNCHANGED <<shutdown_requested_, counter_, main, sync_pc, hb_pc,
                   metrics, wire, events>>

\* The second thread calls sync().
audit_sync_call ==
    /\ audit.sync_count_ < MaxSyncs
    /\ audit' = sync(audit)
    /\ UNCHANGED <<driver, shutdown_requested_, counter_, main, sync_pc, hb_pc,
                   metrics, wire, events>>

\* ------------------------------------------- risk management engine (RME)

\* g_limits, scaled to the integer width of the model.
max_position_per_symbol == 3
max_total_exposure == 4
max_daily_loss == 2
max_order_size == 2

\* rme::MAX_SYMBOLS (a power of two), scaled.
MAX_SYMBOLS == 2

MinInt == -(2 ^ (IntBits - 1))
MaxInt == 2 ^ (IntBits - 1) - 1

\* Two's-complement wrap of x to the integer width.
Wrap(x) == ((x - MinInt) % (2 ^ IntBits)) + MinInt

\* std::abs: undefined for the minimum value, where a build yields the
\* wrapped negation (the minimum itself) or treats the result as positive.
AbsOutcomes(x) ==
    IF x = MinInt THEN {MinInt, MaxInt} ELSE {IF x < 0 THEN -x ELSE x}

\* Signed a + b: undefined on overflow, where a build yields the wrapped sum
\* or the bound it ran into.
AddOutcomes(a, b) ==
    IF a + b > MaxInt THEN {Wrap(a + b), MaxInt}
    ELSE IF a + b < MinInt THEN {Wrap(a + b), MinInt}
    ELSE {a + b}

\* Signed a * b, likewise.
MulOutcomes(a, b) ==
    IF a * b > MaxInt THEN {Wrap(a * b), MaxInt}
    ELSE IF a * b < MinInt THEN {Wrap(a * b), MinInt}
    ELSE {a * b}

\* CircuitBreakerReason
Reasons == {"HIGH_ERROR_RATE", "LATENCY_SPIKE", "DAILY_LOSS_BREACH", "MANUAL_HALT"}

\* Threads that call trip or reset: the heartbeat thread and an operator's.
TripThreads == {"heartbeat", "operator"}

\* Raw confidence values and directions of incoming signals.
SignalRaws == {1, 3, MinInt}
SignalDirections == {-1, 0, 1}

VARIABLES
    \* g_circuit_breaker: tripped_, reason_; claimed is the reason of the
    \* trip call whose exchange found the breaker untripped
    breaker,
    \* g_position_tracker: positions_ (quantity, realized_pnl and
    \* unrealized_pnl by slot), total_exposure_, daily_pnl_
    tracker,
    \* the risk thread: pc, the counters g_signals_received,
    \* g_orders_approved, g_orders_rejected, g_sequence, and the signal in
    \* hand: symbol_id, order_value, side, raw, what is_tripped returned, and
    \* the snapshot check_risk_fast read
    rme,
    \* g_rme_to_poe_buffer: the orders placed on it
    rme_out,
    \* where each thread of TripThreads is in trip / reset, and its argument
    trippers,
    \* calls made so far by the environment: record_pnl, trip / reset
    rme_env

rmeVars == <<breaker, tracker, rme, rme_out, trippers, rme_env>>

RmeInit ==
    /\ breaker = [tripped_ |-> FALSE, reason_ |-> "NONE", claimed |-> "NONE"]
    /\ tracker = [positions_ |-> [i \in 0 .. MAX_SYMBOLS - 1 |-> 0],
                  realized_pnl |-> [i \in 0 .. MAX_SYMBOLS - 1 |-> 0],
                  unrealized_pnl |-> [i \in 0 .. MAX_SYMBOLS - 1 |-> 0],
                  total_exposure_ |-> 0, daily_pnl_ |-> 0]
    /\ rme = [pc |-> "idle", g_signals_received |-> 0, g_orders_approved |-> 0,
              g_orders_rejected |-> 0, g_sequence |-> 0, symbol_id |-> 0,
              order_value |-> 0, side |-> 0, raw |-> 0, saw_tripped |-> FALSE,
              snap |-> [position |-> 0, exposure |-> 0, pnl |-> 0]]
    /\ rme_out = <<>>
    /\ trippers = [t \in TripThreads |-> [pc |-> "idle", reason |-> "NONE"]]
    /\ rme_env = [pnl_calls |-> 0, ops |-> 0]

is_tripped_never(b) == FALSE
\* CircuitBreaker::is_tripped
is_tripped(b) == b.tripped_

\* PositionTracker::get_position
get_position(tr, symbol_id) == tr.positions_[symbol_id % MAX_SYMBOLS]

\* check_risk_fast: the results it can return. Tripped breaker: false.
\* Otherwise the conjunction of the four limit checks.
check_risk_fast(b, tr, symbol_id, order_value) ==
    IF is_tripped(b) THEN {FALSE}
    ELSE UNION { UNION { UNION { UNION {
            { /\ abs_new <= max_position_per_symbol
              /\ abs_order <= max_order_size
              /\ sum <= max_total_exposure
              /\ tr.daily_pnl_ > -max_daily_loss
              : sum \in AddOutcomes(tr.total_exposure_, abs_order) }
            : abs_order \in AbsOutcomes(order_value) }
            : abs_new \in AbsOutcomes(new_position) }
            : new_position \in
                  AddOutcomes(get_position(tr, symbol_id), order_value) } }

\* PositionTracker::update_position: the tracker states it can leave.
update_position(tr, symbol_id, delta) ==
    LET idx == symbol_id % MAX_SYMBOLS
        old_qty == tr.positions_[idx]
    IN UNION { UNION { UNION {
          { [tr EXCEPT !.positions_[idx] = new_qty,
                       !.total_exposure_ = Wrap(@ + change)]
            : change \in AddOutcomes(abs_new, -abs_old) }
          : abs_old \in AbsOutcomes(old_qty) }
          : abs_new \in AbsOutcomes(new_qty) }
          : new_qty \in AddOutcomes(old_qty, delta) }

\* main loop pops a SIGNAL; process_signal counts it, computes the order
\* value and runs check_risk_fast; a rejected signal is counted and dropped.
process_signal_check(symbol_id, raw, direction) ==
    /\ rme.pc = "idle"
    /\ rme.g_signals_received < MaxSignals
    /\ \E order_value \in MulOutcomes(raw, direction) :
       \E ok \in check_risk_fast(breaker, tracker, symbol_id, order_value) :
          rme' = [rme EXCEPT
                    !.pc = IF ok THEN "approved" ELSE "idle",
                    !.g_signals_received = @ + 1,
                    !.g_orders_rejected = IF ok THEN @ ELSE @ + 1,
                    !.symbol_id = symbol_id,
                    !.order_value = order_value,
                    !.side = direction,
                    !.raw = raw,
                    !.saw_tripped = is_tripped(breaker),
                    !.snap = [position |-> get_position(tracker, symbol_id),
                              exposure |-> tracker.total_exposure_,
                              pnl |-> tracker.daily_pnl_]]
    /\ UNCHANGED <<breaker, tracker, rme_out, trippers, rme_env>>

\* process_signal, approved: build the order, update the position, push to
\* the execution engine; count the order if the push succeeded.
process_signal_publish ==
    /\ rme.pc = "approved"
    /\ tracker' \in update_position(tracker, rme.symbol_id, rme.order_value)
    /\ IF Len(rme_out) < OutCap
       THEN /\ rme_out' = Append(rme_out,
                            [order_id |-> rme.g_sequence + 1,
                             symbol_id |-> rme.symbol_id,
                             quantity |-> rme.raw,
                             side |-> rme.side,
                             order_value |-> rme.order_value,
                             saw_tripped |-> rme.saw_tripped,
                             snap |-> rme.snap])
            /\ rme' = [rme EXCEPT !.pc = "idle", !.g_sequence = @ + 1,
                                  !.g_orders_approved = @ + 1]
       ELSE /\ rme_out' = rme_out
            /\ rme' = [rme EXCEPT !.pc = "idle", !.g_sequence = @ + 1]
    /\ UNCHANGED <<breaker, trippers, rme_env>>

\* PositionTracker::record_pnl
record_pnl(pnl) ==
    /\ rme_env.pnl_calls < MaxPnlCalls
    /\ tracker' = [tracker EXCEPT !.daily_pnl_ = Wrap(@ + pnl)]
    /\ rme_env' = [rme_env EXCEPT !.pnl_calls = @ + 1]
    /\ UNCHANGED <<breaker, rme, rme_out, trippers>>

\* A user of the tracker calls update_position(symbol_id, delta).
update_position_call(symbol_id, delta) ==
    /\ rme_env.ops < MaxOps
    /\ tracker' \in update_position(tracker, symbol_id, delta)
    /\ rme_env' = [rme_env EXCEPT !.ops = @ + 1]
    /\ UNCHANGED <<breaker, rme, rme_out, trippers>>

\* PositionTracker::reset: every Position zeroed, both counters stored 0.
tracker_reset ==
    /\ rme_env.ops < MaxOps
    /\ tracker' = [positions_ |-> [i \in 0 .. MAX_SYMBOLS - 1 |-> 0],
                   realized_pnl |-> [i \in 0 .. MAX_SYMBOLS - 1 |-> 0],
                   unrealized_pnl |-> [i \in 0 .. MAX_SYMBOLS - 1 |-> 0],
                   total_exposure_ |-> 0, daily_pnl_ |-> 0]
    /\ rme_env' = [rme_env EXCEPT !.ops = @ + 1]
    /\ UNCHANGED <<breaker, rme, rme_out, trippers>>

\* Sum over the slots below n of realized plus unrealized PnL.
RECURSIVE SlotPnl(_, _)
SlotPnl(tr, n) ==
    IF n = 0 THEN 0
    ELSE SlotPnl(tr, n - 1) + tr.realized_pnl[n - 1] + tr.unrealized_pnl[n - 1]

trip_exchange_unguarded(t, reason) ==
    /\ trippers[t].pc = "idle"
    /\ breaker' = [breaker EXCEPT !.tripped_ = TRUE,
                                  !.claimed = IF breaker.tripped_ THEN @
                                              ELSE reason]
    /\ trippers' = [trippers EXCEPT
                      ![t] = [pc |-> "trip_reason", reason |-> reason]]
\* CircuitBreaker::trip, first half: tripped_.exchange(true); the caller
\* goes on to store the reason only if the breaker was not tripped.
trip_exchange(t, reason) ==
    /\ trippers[t].pc = "idle"
    /\ breaker' = [breaker EXCEPT !.tripped_ = TRUE,
                                  !.claimed = IF breaker.tripped_ THEN @
                                              ELSE reason]
    /\ trippers' = [trippers EXCEPT
                      ![t] = [pc |-> IF breaker.tripped_ THEN "idle"
                                     ELSE "trip_reason",
                              reason |-> reason]]

\* CircuitBreaker::trip, second half: reason_ = reason.
trip_store_reason(t) ==
    /\ trippers[t].pc = "trip_reason"
    /\ breaker' = [breaker EXCEPT !.reason_ = trippers[t].reason]
    /\ trippers' = [trippers EXCEPT ![t].pc = "idle"]
    /\ UNCHANGED <<tracker, rme, rme_out, rme_env>>

heartbeat_thread_tick_clearing ==
    /\ ~shutdown_requested_
    /\ trippers["heartbeat"].pc = "idle"
    /\ IF tracker.daily_pnl_ < -max_daily_loss
       THEN trip_exchange("heartbeat", "DAILY_LOSS_BREACH")
       ELSE /\ breaker' = [breaker EXCEPT !.tripped_ = FALSE]
            /\ UNCHANGED trippers
    /\ UNCHANGED <<tracker, rme, rme_out, rme_env>>
\* heartbeat_thread: after the sleep, read the statistics; trip the breaker
\* when the daily PnL is below the loss limit.
heartbeat_thread_tick ==
    /\ ~shutdown_requested_
    /\ tracker.daily_pnl_ < -max_daily_loss
    /\ trip_exchange("heartbeat", "DAILY_LOSS_BREACH")
    /\ UNCHANGED <<tracker, rme, rme_out, rme_env>>

\* Another thread calls trip(reason).
trip_call(t, reason) ==
    /\ t # "heartbeat"
    /\ rme_env.ops < MaxOps
    /\ trip_exchange(t, reason)
    /\ rme_env' = [rme_env EXCEPT !.ops = @ + 1]
    /\ UNCHANGED <<tracker, rme, rme_out>>

\* CircuitBreaker::reset, first half: tripped_.store(false).
reset_call(t) ==
    /\ t # "heartbeat"
    /\ rme_env.ops < MaxOps
    /\ trippers[t].pc = "idle"
    /\ breaker' = [breaker EXCEPT !.tripped_ = FALSE, !.claimed = "NONE"]
    /\ trippers' = [trippers EXCEPT ![t] = [pc |-> "reset_reason",
                                            reason |-> "NONE"]]
    /\ rme_env' = [rme_env EXCEPT !.ops = @ + 1]
    /\ UNCHANGED <<tracker, rme, rme_out>>

\* CircuitBreaker::reset, second half: reason_ = NONE.
reset_store_reason(t) ==
    /\ trippers[t].pc = "reset_reason"
    /\ breaker' = [breaker EXCEPT !.reason_ = "NONE"]
    /\ trippers' = [trippers EXCEPT ![t].pc = "idle"]
    /\ UNCHANGED <<tracker, rme, rme_out, rme_env>>

\* ------------------------------------------- analytics engine (ade_main)
\* The engine's per-tick path: per-slot rolling price statistics and
\* volatility regime detector, winsorization and the signal gate. The
\* tick window, the volume statistics, the EWMA price statistics and the
\* latency tracker are written on every tick and read by nothing below.

\* PRICE_SCALE, scaled (10^8 in the program).
PRICE_SCALE == 100
\* Z-score cap handed to g_zscore_capper.
MAX_ZSCORE == 3 * PRICE_SCALE
\* EWMAStats::ALPHA_SCALE
ALPHA_SCALE == 10000
\* Half-life of the regime detector's volatility EWMA.
REGIME_HALF_LIFE == 100
\* Window of SymbolState::price_stats.
PriceStatsWindow == 64
\* Raw prices a tick can carry.
TickPrices == {0, 10000}

\* C++ integer division truncates toward zero (divisor positive here).
CDiv(a, b) == IF a >= 0 THEN a \div b ELSE -((-a) \div b)

\* std::abs on a value known to be above INT64_MIN.
Abs(x) == IF x < 0 THEN -x ELSE x

\* Newton-Raphson integer square root, as in stddev_approx and isqrt.
RECURSIVE isqrt_loop(_, _, _)
isqrt_loop(n, x, y) ==
    IF y < x THEN isqrt_loop(n, y, CDiv(y + CDiv(n, y), 2)) ELSE x

isqrt(n) == IF n <= 0 THEN 0 ELSE isqrt_loop(n, n, CDiv(n + 1, 2))

\* Width in bits of the int64_t accumulators sum_ and sum_sq_, scaled.
AccBits == 31

\* Two's-complement wrap of an accumulator.  Signed overflow is undefined
\* in the language; the wrap is what the add, sub and imul instructions
\* produce and what the specification stipulates.
AccHalf == 2 ^ (AccBits - 1)

AccWrap(x) ==
    IF x >= AccHalf THEN (x - AccHalf) - AccHalf
    ELSE IF x < -AccHalf THEN (x + AccHalf) + AccHalf
    ELSE x

\* RollingStats<n>: constructor
RollingStats_new(n) ==
    [buffer_ |-> [i \in 0 .. n - 1 |-> 0], pos_ |-> 0, count_ |-> 0,
     sum_ |-> 0, sum_sq_ |-> 0]

\* RollingStats<n>::update
RollingStats_update(rs, n, new_val) ==
    LET full == rs.count_ = n
        old_val == rs.buffer_[rs.pos_]
        sum_1 == IF full THEN AccWrap(rs.sum_ - old_val) ELSE rs.sum_
        sum_sq_1 == IF full
                    THEN AccWrap(rs.sum_sq_ - AccWrap(old_val * old_val))
                    ELSE rs.sum_sq_
    IN [buffer_ |-> [rs.buffer_ EXCEPT ![rs.pos_] = new_val],
        pos_ |-> (rs.pos_ + 1) % n,
        count_ |-> IF full THEN rs.count_ ELSE rs.count_ + 1,
        sum_ |-> AccWrap(sum_1 + new_val),
        sum_sq_ |-> AccWrap(sum_sq_1 + AccWrap(new_val * new_val))]

\* RollingStats::mean
RollingStats_mean(rs) == IF rs.count_ > 0 THEN CDiv(rs.sum_, rs.count_) ELSE 0

\* RollingStats::variance
RollingStats_variance(rs) ==
    IF rs.count_ < 2 THEN 0
    ELSE AccWrap(CDiv(rs.sum_sq_, rs.count_)
                    - AccWrap(RollingStats_mean(rs) * RollingStats_mean(rs)))

\* RollingStats::stddev_approx
RollingStats_stddev_approx(rs) == isqrt(RollingStats_variance(rs))

\* EWMAStats::compute_alpha for the half-lives the engine constructs:
\* (1 - exp(-0.693147 / half_life)) * ALPHA_SCALE, truncated.
compute_alpha(half_life) ==
    CASE half_life = 50 -> 137
      [] half_life = 100 -> 69
      [] half_life = 200 -> 34

\* EWMAStats: constructor. ewma_var_ is not read by mean() or is_ready().
EWMAStats_new(half_life) ==
    [alpha_ |-> compute_alpha(half_life),
     one_minus_alpha_ |-> ALPHA_SCALE - compute_alpha(half_life),
     ewma_mean_ |-> 0, count_ |-> 0, initialized_ |-> FALSE]

\* EWMAStats::update
EWMAStats_update(e, new_val) ==
    IF ~e.initialized_
    THEN [e EXCEPT !.ewma_mean_ = new_val * ALPHA_SCALE,
                   !.initialized_ = TRUE, !.count_ = 1]
    ELSE [e EXCEPT !.ewma_mean_ = e.alpha_ * new_val
                        + e.one_minus_alpha_ * CDiv(e.ewma_mean_, ALPHA_SCALE),
                   !.count_ = @ + 1]

\* EWMAStats::mean
EWMAStats_mean(e) ==
    IF e.initialized_ THEN CDiv(e.ewma_mean_, ALPHA_SCALE) ELSE 0

\* EWMAStats::is_ready
is_ready(e) == e.count_ >= 10

\* VolRegimeDetector: constructor
VolRegimeDetector_new(half_life) ==
    [vol_ewma_ |-> EWMAStats_new(half_life),
     vol_of_vol_ewma_ |-> EWMAStats_new(half_life * 2),
     regime_threshold_ |-> 2 * PRICE_SCALE,
     last_vol_ |-> 0]

\* VolRegimeDetector::is_regime_change
is_regime_change(d) ==
    /\ is_ready(d.vol_of_vol_ewma_)
    /\ EWMAStats_mean(d.vol_ewma_) > 0
    /\ EWMAStats_mean(d.vol_of_vol_ewma_)
          > CDiv(d.regime_threshold_ * EWMAStats_mean(d.vol_ewma_),
                 PRICE_SCALE)

\* VolRegimeDetector::update: the detector after the call (the call returns
\* is_regime_change of it).
VolRegimeDetector_update(d, variance) ==
    LET vol == isqrt(variance)
    IN [d EXCEPT !.vol_ewma_ = EWMAStats_update(@, vol),
                 !.vol_of_vol_ewma_ =
                     IF d.last_vol_ > 0
                     THEN EWMAStats_update(@, Abs(vol - d.last_vol_))
                     ELSE @,
                 !.last_vol_ = vol]

\* VolRegimeDetector::current_vol
current_vol(d) == EWMAStats_mean(d.vol_ewma_)

\* ZScoreCapper::cap
cap(max_z, z_score) ==
    IF z_score > max_z THEN max_z
    ELSE IF z_score < -max_z THEN -max_z
    ELSE z_score

\* ZScoreCapper::is_outlier
is_outlier(max_z, z_score) == Abs(z_score) > max_z

VARIABLES
    \* the engine: g_symbol_states (per slot price_stats, regime_detector,
    \* message_count), g_ade_to_mind_buffer (out), g_sequence and the
    \* metrics; last is what the latest tick computed
    ade,
    \* a second copy of the engine fed the same messages, whose
    \* regime-change flag is forced off
    ade_ungated,
    \* messages popped from the connector queue so far: ticks, heartbeats
    ade_env

adeVars == <<ade, ade_ungated, ade_env>>

\* SymbolState: constructor
SymbolState ==
    [price_stats |-> RollingStats_new(PriceStatsWindow),
     regime_detector |-> VolRegimeDetector_new(REGIME_HALF_LIFE),
     message_count |-> 0]

AdeCopy ==
    [g_symbol_states |-> [i \in 0 .. MAX_SYMBOLS - 1 |-> SymbolState],
     out |-> <<>>,
     g_sequence |-> 0,
     g_messages_processed |-> 0,
     g_signals_generated |-> 0,
     g_signals_gated |-> 0,
     g_outliers_capped |-> 0,
     last |-> [price |-> 0, z_score |-> 0, regime |-> "NORMAL",
               should_signal |-> FALSE, pushed |-> FALSE]]

\* process_market_data: the regime the tick is classified in.
MarketRegime(regime_change, d) ==
    IF regime_change THEN "REGIME_CHANGE"
    ELSE IF current_vol(d) > 2 * PRICE_SCALE THEN "HIGH_VOL"
    ELSE IF current_vol(d) < CDiv(PRICE_SCALE, 2) THEN "LOW_VOL"
    ELSE "NORMAL"

\* RingBuffer::try_push on g_ade_to_mind_buffer: the queue afterwards.
try_push_out(c, msg) ==
    IF Len(c.out) < AdeOutCap THEN Append(c.out, msg) ELSE c.out

\* process_market_data on one copy of the engine; flag_on says whether the
\* detector's regime-change flag is used as computed.
process_market_data_on(c, symbol_id, price, flag_on) ==
    LET symbol_idx == symbol_id % MAX_SYMBOLS
        state == c.g_symbol_states[symbol_idx]
        price_stats == RollingStats_update(state.price_stats,
                                           PriceStatsWindow, price)
        mean_price == RollingStats_mean(price_stats)
        price_deviation == price - mean_price
        stddev == RollingStats_stddev_approx(price_stats)
        raw_z == IF stddev > 0
                 THEN CDiv(price_deviation * PRICE_SCALE, stddev) ELSE 0
        outlier == is_outlier(MAX_ZSCORE, raw_z)
        z_score == IF outlier THEN cap(MAX_ZSCORE, raw_z) ELSE raw_z
        current_var == RollingStats_variance(price_stats)
        detector == VolRegimeDetector_update(state.regime_detector,
                                             current_var)
        regime_change == flag_on /\ is_regime_change(detector)
        regime == MarketRegime(regime_change, detector)
        should_signal == /\ Abs(z_score) > CDiv(PRICE_SCALE, 2)
                         /\ regime # "REGIME_CHANGE"
        sig == [msg_type |-> "SIGNAL",
                tick |-> c.g_messages_processed + 1,
                sequence_id |-> c.g_sequence + 1,
                symbol_id |-> symbol_id,
                direction |-> IF z_score > 0 THEN 1 ELSE -1,
                confidence |-> Abs(z_score),
                strategy_id |-> 1]
        room == Len(c.out) < AdeOutCap
    IN [g_symbol_states |->
            [c.g_symbol_states EXCEPT
                ![symbol_idx] = [price_stats |-> price_stats,
                                 regime_detector |-> detector,
                                 message_count |-> state.message_count + 1]],
        out |-> IF should_signal THEN try_push_out(c, sig) ELSE c.out,
        g_sequence |-> IF should_signal THEN c.g_sequence + 1
                       ELSE c.g_sequence,
        g_messages_processed |-> c.g_messages_processed + 1,
        g_signals_generated |-> IF should_signal /\ room
                                THEN c.g_signals_generated + 1
                                ELSE c.g_signals_generated,
        g_signals_gated |-> IF ~should_signal
                               /\ Abs(z_score) > CDiv(PRICE_SCALE, 2)
                            THEN c.g_signals_gated + 1
                            ELSE c.g_signals_gated,
        g_outliers_capped |-> IF outlier THEN c.g_outliers_capped + 1
                              ELSE c.g_outliers_capped,
        last |-> [price |-> price, z_score |-> z_score, regime |-> regime,
                  should_signal |-> should_signal,
                  pushed |-> should_signal /\ room]]

\* The engine after the ticks of w, all for symbol 0, from its start.
RECURSIVE AdeAfter(_, _)
AdeAfter(w, flag_on) ==
    IF w = <<>> THEN AdeCopy
    ELSE process_market_data_on(AdeAfter(SubSeq(w, 1, Len(w) - 1), flag_on),
                                0, w[Len(w)], flag_on)

\* A tick history after which the slot's detector is about to declare a
\* regime change.
Warmup == <<0, 0, 0, 0, 10000, 10000, 0, 0, 0, 0, 0, 0, 0, 0>>

AdeState(w) ==
    /\ ade = AdeAfter(w, TRUE)
    /\ ade_ungated = AdeAfter(w, FALSE)
    /\ ade_env = [ticks |-> 0, beats |-> 0]

\* The engine at its start, or after the ticks of Warmup.
AdeInit == \E w \in {<<>>, Warmup} : AdeState(w)

\* process_batch pops a MARKET_DATA message: process_market_data.
process_market_data(symbol_id, price) ==
    /\ ade_env.ticks < MaxTicks
    /\ ade' = process_market_data_on(ade, symbol_id, price, TRUE)
    /\ ade_ungated' =
           process_market_data_on(ade_ungated, symbol_id, price, FALSE)
    /\ ade_env' = [ade_env EXCEPT !.ticks = @ + 1]

\* process_batch pops a HEARTBEAT message: forwarded with try_push, whose
\* result is not looked at.
forward_heartbeat ==
    /\ ade_env.beats < MaxAdeBeats
    /\ LET hb == [msg_type |-> "HEARTBEAT", tick |-> 0, sequence_id |-> 0,
                  symbol_id |-> 0,
                  direction |-> 0, confidence |-> 0, strategy_id |-> 0]
       IN /\ ade' = [ade EXCEPT !.out = try_push_out(ade, hb)]
          /\ ade_ungated' = [ade_ungated EXCEPT
                                !.out = try_push_out(ade_ungated, hb)]
    /\ ade_env' = [ade_env EXCEPT !.beats = @ + 1]

\* ----------------------------------------- OrderIDGenerator used directly

\* Threads that call generate() on the one generator.
GenThreads == {"main", "other"}

\* generate() calls in a run: one more than the counter has values.
MaxGenCalls == 2 ^ CounterBits + 1

VARIABLES
    \* callers of generate(): per thread pc and the count its fetch_add
    \* returned; calls (fetch_adds done); issued (ids returned, in order)
    idgen

GenInit ==
    idgen = [pc |-> [t \in GenThreads |-> "idle"],
             count |-> [t \in GenThreads |-> 0],
             calls |-> 0, issued |-> <<>>]

generate_fetch_add_racy(t) ==
    /\ idgen.pc[t] = "idle"
    /\ idgen.calls < MaxGenCalls
    /\ counter_' = IF \E u \in GenThreads : idgen.pc[u] = "fetched"
                   THEN counter_
                   ELSE (counter_ + 1) % (2 ^ CounterBits)
    /\ idgen' = [idgen EXCEPT !.pc[t] = "fetched", !.count[t] = counter_,
                              !.calls = @ + 1]
\* OrderIDGenerator::generate, first half: count = counter_.fetch_add(1),
\* one atomic read-modify-write on the uint32_t counter.
generate_fetch_add(t) ==
    /\ idgen.pc[t] = "idle"
    /\ idgen.calls < MaxGenCalls
    /\ counter_' = (counter_ + 1) % (2 ^ CounterBits)
    /\ idgen' = [idgen EXCEPT !.pc[t] = "fetched", !.count[t] = counter_,
                              !.calls = @ + 1]

\* OrderIDGenerator::generate, second half: return (startup_ts_ << 32) | count.
generate_return(t) ==
    /\ idgen.pc[t] = "fetched"
    /\ idgen' = [idgen EXCEPT !.pc[t] = "idle",
                              !.issued = Append(@, OrderId(idgen.count[t]))]
    /\ UNCHANGED counter_

\* ------------------------------------------- ShutdownManager used directly

\* Threads that invoke signal_shutdown: the signal handler and another.
ShutdownThreads == {"signal", "other"}

VARIABLES
    \* the manager next to its flag shutdown_requested_: handlers_ (the
    \* registered finalizers: registration number, whether it throws), ran
    \* (registration numbers of the finalizers run, in order), per invoking
    \* thread pc and the position it of its reverse iterator, invoked
    \* (signal_shutdown calls made), caught (exceptions swallowed), finished
    \* (the handler loop has ended)
    shut

ShutInit ==
    shut = [handlers_ |-> <<>>, ran |-> <<>>,
            pc |-> [t \in ShutdownThreads |-> "idle"],
            it |-> [t \in ShutdownThreads |-> 0],
            invoked |-> 0, caught |-> 0, finished |-> FALSE]

\* ShutdownManager::register_handler: handlers_.push_back(handler). "NOT
\* thread-safe - call only during initialization": the callers modelled
\* here register before signal_shutdown is first invoked.
register_handler(throws) ==
    /\ Len(shut.handlers_) < MaxHandlers
    /\ shut.invoked = 0
    /\ shut' = [shut EXCEPT !.handlers_ =
                   Append(@, [id |-> Len(@) + 1, throws |-> throws])]
    /\ UNCHANGED shutdown_requested_

signal_shutdown_cas_always(t) ==
    /\ shut.pc[t] = "idle"
    /\ shut.invoked < MaxShutdownCalls
    /\ shutdown_requested_' = TRUE
    /\ shut' = [shut EXCEPT !.pc[t] = "loop", !.it[t] = Len(shut.handlers_),
                            !.invoked = @ + 1]
\* ShutdownManager::signal_shutdown, the compare_exchange_strong on the
\* flag: the caller that finds it false sets it and enters the handler
\* loop at rbegin(); any other caller returns.
signal_shutdown_cas(t) ==
    /\ shut.pc[t] = "idle"
    /\ shut.invoked < MaxShutdownCalls
    /\ shutdown_requested_' = TRUE
    /\ shut' = [shut EXCEPT
                  !.pc[t] = IF shutdown_requested_ THEN "idle" ELSE "loop",
                  !.it[t] = IF shutdown_requested_ THEN @
                            ELSE Len(shut.handlers_),
                  !.invoked = @ + 1]

\* signal_shutdown, one turn of the loop: call the handler under the
\* iterator inside try / catch (...), then step the iterator; at rend()
\* the call returns.
signal_shutdown_step(t) ==
    /\ shut.pc[t] = "loop"
    /\ IF shut.it[t] = 0
       THEN shut' = [shut EXCEPT !.pc[t] = "idle", !.finished = TRUE]
       ELSE shut' = [shut EXCEPT
                       !.ran = Append(@, shut.handlers_[shut.it[t]].id),
                       !.caught = IF shut.handlers_[shut.it[t]].throws
                                  THEN @ + 1 ELSE @,
                       !.it[t] = @ - 1]
    /\ UNCHANGED shutdown_requested_

\* ---------------------------------------------------------------------------
\* ZScoreCapper used on its own (src/src/ade/ade_main.cpp, class ZScoreCapper).
\* capper.max_z_ is the threshold; z, once and twice record the last z-score
\* handed to cap, cap of it, and cap of that.

\* Thresholds a caller hands to set_max_z: an int64_t, not validated.
CapValues ==
    {-PRICE_SCALE, 0, CDiv(PRICE_SCALE, 2), PRICE_SCALE, 2 * PRICE_SCALE,
     MAX_ZSCORE}

\* Z-scores handed to cap, in steps of half a sigma around the thresholds.
ZValues == {k * CDiv(PRICE_SCALE, 2) : k \in -8 .. 8}

VARIABLES capper

\* ZScoreCapper g_zscore_capper(MAX_ZSCORE), before any call of cap.
CapperInit ==
    capper = [max_z_ |-> MAX_ZSCORE, capped |-> FALSE, z |-> 0, once |-> 0,
              twice |-> 0]

\* ZScoreCapper::set_max_z
set_max_z(max_z) ==
    capper' = [capper EXCEPT !.max_z_ = max_z, !.capped = FALSE]

\* cap applied to a z-score and then to its own result.
cap_call(z_score) ==
    LET once == cap(capper.max_z_, z_score)
    IN capper' = [capper EXCEPT !.capped = TRUE, !.z = z_score,
                                !.once = once,
                                !.twice = cap(capper.max_z_, once)]

\* ---------------------------------------------------------------------------
\* The audit log file across runs (src/unnamed/part_002, AuditLog::AuditLog
\* and ~AuditLog).  logfile.lines is the file on disk, pending the lines
\* still in the stream's buffer, is_open whether an AuditLog object holds the
\* file, opens and writes the constructor and log_* calls made so far.

\* The three lines the constructor writes.
AuditHeader ==
    <<[header |-> TRUE, text |-> "# SAGE Audit Log"],
      [header |-> TRUE,
       text |-> "# Format: TIMESTAMP|EVENT|ORDER_ID|SYMBOL|SIDE|PRICE|QTY"],
      [header |-> TRUE,
       text |-> "# Events: ORDER (intent), SENT (transmitted), ACK, REJECT, FILL, ERROR"]>>

\* file_.open(filename, app | out), then the header and file_.flush().
AuditLog_open_header(f) == f.lines \o AuditHeader

VARIABLES logfile

\* No file yet, no AuditLog object.
LogFileInit ==
    logfile = [lines |-> <<>>, pending |-> <<>>, is_open |-> FALSE,
               opens |-> 0, writes |-> 0]

\* AuditLog::AuditLog
AuditLog_ctor ==
    /\ ~logfile.is_open
    /\ logfile.opens < MaxOpens
    /\ logfile' = [logfile EXCEPT !.lines = AuditLog_open_header(logfile),
                                  !.is_open = TRUE, !.opens = @ + 1]

\* A log_* call: write_entry puts one record line in the stream.
AuditLog_log(ev) ==
    /\ logfile.is_open
    /\ logfile.writes < MaxLogWrites
    /\ logfile' = [logfile EXCEPT
                     !.pending = Append(@, [header |-> FALSE, text |-> ev]),
                     !.writes = @ + 1]

\* AuditLog::flush: the buffered lines reach the file.
AuditLog_flush ==
    /\ logfile.is_open
    /\ logfile.pending # <<>>
    /\ logfile' = [logfile EXCEPT !.lines = @ \o logfile.pending,
                                  !.pending = <<>>]

\* AuditLog::~AuditLog: sync(), then file_.close().
AuditLog_dtor ==
    /\ logfile.is_open
    /\ logfile' = [logfile EXCEPT !.lines = @ \o logfile.pending,
                                  !.pending = <<>>, !.is_open = FALSE]

\* ---------------------------------------------------------------------------
\* A thread that calls the capacity queries of the queue while producer and
\* consumer run (src/unnamed/part_003, size_approx / empty_approx /
\* full_approx).  obs: pc, the query in progress, the head it loaded, the
\* value size_approx computed and the value the query returned, the calls
\* made so far, and seen: the logical sizes head_ - tail_ the queue has had
\* since the call started.
VARIABLES obs

ObsInit ==
    obs = [pc |-> "idle", query |-> "size", head |-> 0, size |-> 0,
           ret |-> 0, calls |-> 0, seen |-> {}]

\* The observer calls size_approx(), empty_approx() or full_approx().
approx_call(query) ==
    /\ obs.pc = "idle"
    /\ obs.calls < MaxQueries
    /\ obs' = [obs EXCEPT !.pc = "load_head", !.query = query,
                          !.calls = @ + 1, !.seen = {Sub(head_, tail_)}]
    /\ UNCHANGED ringVars

\* size_approx: head = head_.load(relaxed)
size_approx_load_head ==
    /\ obs.pc = "load_head"
    /\ obs' = [obs EXCEPT !.pc = "load_tail", !.head = head_]
    /\ UNCHANGED ringVars

\* size_approx: tail = tail_.load(relaxed); return head - tail, and the
\* test empty_approx or full_approx makes on it (1 for true, 0 for false).
size_approx_load_tail ==
    /\ obs.pc = "load_tail"
    /\ LET size == Sub(obs.head, tail_)
       IN obs' = [obs EXCEPT
                    !.pc = "idle", !.size = size,
                    !.ret = CASE obs.query = "size" -> size
                              [] obs.query = "empty" ->
                                    IF size = 0 THEN 1 ELSE 0
                              [] obs.query = "full" ->
                                    IF size >= N THEN 1 ELSE 0]
    /\ UNCHANGED ringVars

\* A step of the producer or the consumer while a query may be in progress:
\* the logical size the queue has after the step is recorded.
Observed(A) ==
    /\ A
    /\ obs' = IF obs.pc = "idle" THEN obs
              ELSE [obs EXCEPT !.seen = @ \cup {Sub(head_', tail_')}]

\* ---------------------------------------------------------------------------
\* FixedPoint (src/src/types/fixed_point.hpp): a raw int64_t scaled by
\* PRICE_SCALE.  The register is FpBits wide here, wide enough for the
\* square of PRICE_SCALE as int64_t is for the square of 10^8.  Signed overflow is
\* undefined in the language; operator+ and operator- are taken as the
\* two's-complement wrap the specification stipulates and the add and sub
\* instructions produce.
FpMin == -(2 ^ (FpBits - 1))
FpMax == 2 ^ (FpBits - 1) - 1
FpRange == FpMin .. FpMax

\* Two's-complement wrap to the register width.
FpWrap(x) == ((x - FpMin) % (2 ^ FpBits)) + FpMin

\* Raw values around the ends of the range, zero and one unit.
FpEnds ==
    {FpMin, FpMin + 1, -PRICE_SCALE, -1, 0, 1, PRICE_SCALE, FpMax - 1, FpMax}

\* Raw values with integer part k and fractional part f of either sign,
\* and the ends of the range.
FpSamples ==
    {FpMin, FpMin + 1, FpMax - 1, FpMax}
    \cup {k * PRICE_SCALE + f : k \in {-150, -3, -1, 0, 1, 3, 150},
                                f \in {-99, -50, -1, 0, 1, 50, 99}}

\* Builds: with __SIZEOF_INT128__ defined, or the split fallback.
FpBuilds == {"int128", "fallback"}

FixedPoint_add_saturating(a, b) ==
    IF a + b > FpMax THEN FpMax ELSE IF a + b < FpMin THEN FpMin ELSE a + b

\* FixedPoint::operator+
FixedPoint_add(a, b) == FpWrap(a + b)

\* Remainder of the truncating division, with the sign of the dividend.
CRem(a, b) == a - b * CDiv(a, b)

FixedPoint_mul_narrow(a, b, build) == FpWrap(CDiv(FpWrap(a * b), PRICE_SCALE))

\* FixedPoint::operator*: the product in a register twice as wide, divided
\* by PRICE_SCALE and cast back; or, without __int128, the four partial
\* products of the integer and fractional parts, each in the narrow
\* register.
FixedPoint_mul(a, b, build) ==
    IF build = "int128" THEN FpWrap(CDiv(a * b, PRICE_SCALE))
    ELSE LET a_hi == CDiv(a, PRICE_SCALE)
             a_lo == CRem(a, PRICE_SCALE)
             b_hi == CDiv(b, PRICE_SCALE)
             b_lo == CRem(b, PRICE_SCALE)
             t1 == FpWrap(FpWrap(a_hi * b_hi) * PRICE_SCALE)
             t2 == FpWrap(a_hi * b_lo)
             t3 == FpWrap(a_lo * b_hi)
             t4 == CDiv(FpWrap(a_lo * b_lo), PRICE_SCALE)
         IN FpWrap(FpWrap(FpWrap(t1 + t2) + t3) + t4)

\* int64_t diff = a.value - b.value: undefined when the difference does not
\* fit, where a build yields the wrapped difference or the bound it ran
\* into.
FpSubOutcomes(a, b) ==
    IF a - b > FpMax THEN {FpWrap(a - b), FpMax}
    ELSE IF a - b < FpMin THEN {FpWrap(a - b), FpMin}
    ELSE {a - b}

\* diff & (diff >> 63): diff when it is negative, 0 otherwise.
DiffAndMask(diff) == IF diff < 0 THEN diff ELSE 0

\* min(a, b): b.value + (diff & mask)
FixedPoint_min(a, b, diff) == FpWrap(b + DiffAndMask(diff))

\* max(a, b): a.value - (diff & mask)
FixedPoint_max(a, b, diff) == FpWrap(a - DiffAndMask(diff))

\* fp: the last expression evaluated: op, its operands, the build, and its
\* results (r1, r2).
VARIABLES fp

FpInit ==
    fp = [op |-> "none", a |-> 0, b |-> 0, c |-> 0, build |-> "int128",
          r1 |-> 0, r2 |-> 0]

\* (a + b) + c and a + (b + c)
add3_call(a, b, c) ==
    /\ fp.op = "none"
    /\ fp' = [fp EXCEPT !.op = "add3", !.a = a, !.b = b, !.c = c,
                        !.r1 = FixedPoint_add(FixedPoint_add(a, b), c),
                        !.r2 = FixedPoint_add(a, FixedPoint_add(b, c))]

\* a * b
mul_call(a, b, build) ==
    /\ fp.op = "none"
    /\ fp' = [fp EXCEPT !.op = "mul", !.a = a, !.b = b, !.build = build,
                        !.r1 = FixedPoint_mul(a, b, build)]

\* min(a, b) and max(a, b)
minmax_call(a, b) ==
    /\ fp.op = "none"
    /\ \E diff \in FpSubOutcomes(a, b) :
          fp' = [fp EXCEPT !.op = "minmax", !.a = a, !.b = b,
                           !.r1 = FixedPoint_min(a, b, diff),
                           !.r2 = FixedPoint_max(a, b, diff)]

\* ---------------------------------------------------------------------------
\* One RollingStats<RollWindow> fed with validated prices
\* (src/unnamed/part_006).  roll.stats is the object, roll.hist the values
\* handed to update so far, oldest first.

\* Raw prices the validator accepts (raw > 0): one raw unit, one price unit,
\* and two prices whose squares fit an accumulator one at a time.
RollPrices == {1, PRICE_SCALE, 290 * PRICE_SCALE, 300 * PRICE_SCALE}

VARIABLES roll

RollInit == roll = [stats |-> RollingStats_new(RollWindow), hist |-> <<>>]

\* update(new_val)
roll_update(new_val) ==
    /\ Len(roll.hist) < MaxRollUpdates
    /\ roll' = [stats |-> RollingStats_update(roll.stats, RollWindow, new_val),
                hist |-> Append(roll.hist, new_val)]

\* The last min(count, N) observations.
RollWindowValues ==
    LET k == Min(Len(roll.hist), RollWindow)
    IN SubSeq(roll.hist, Len(roll.hist) - k + 1, Len(roll.hist))

RECURSIVE SeqSum(_)
SeqSum(q) == IF q = <<>> THEN 0 ELSE Head(q) + SeqSum(Tail(q))

RECURSIVE SeqSumSq(_)
SeqSumSq(q) == IF q = <<>> THEN 0 ELSE Head(q) * Head(q) + SeqSumSq(Tail(q))

\* ---------------------------------------------------------------------------
\* The execution engine's threads around the audit mutex, with a
\* termination signal (src/unnamed/part_002 main, fsync_thread,
\* heartbeat_thread, AuditLog::mutex_; src/unnamed/part_005 signal_handler).
\* mx.flag is shutdown_requested_, mx.owner the holder of AuditLog::mutex_
\* ("none", a thread, or "handler"), mx.pc each thread's position, and
\* mx.sig the signal handler: the thread it interrupted and its position.
PoeThreads == {"main", "sync", "hb"}

VARIABLES mx

MxInit ==
    mx = [flag |-> FALSE, owner |-> "none",
          pc |-> [t \in PoeThreads |-> "run"],
          sig |-> [thread |-> "none", pc |-> "none"]]

\* The handler runs on thread t, which does not advance until it returns.
Suspended(t) == mx.sig.thread = t /\ mx.sig.pc \notin {"none", "returned"}

\* One more turn of the thread's loop, the flag not set: it comes to
\* std::lock_guard<std::mutex> lock(mutex_) in write_entry (main, through
\* process_order), sync (sync thread) or flush (heartbeat thread).
audit_lock(t) ==
    /\ mx.pc[t] = "run"
    /\ ~Suspended(t)
    /\ ~mx.flag
    /\ mx.owner = "none"
    /\ mx' = [mx EXCEPT !.owner = t, !.pc[t] = "locked"]

\* The end of the guarded block: the lock_guard releases mutex_.
audit_unlock(t) ==
    /\ mx.pc[t] \in {"locked", "final_locked"}
    /\ ~Suspended(t)
    /\ mx' = [mx EXCEPT !.owner = "none",
                        !.pc[t] = IF mx.pc[t] = "locked" THEN "run"
                                  ELSE "exited"]

\* while (!is_shutdown_requested()): the flag is set, the loop ends; main
\* goes on to the joins, a background thread returns.
loop_exit(t) ==
    /\ mx.pc[t] = "run"
    /\ ~Suspended(t)
    /\ mx.flag
    /\ mx' = [mx EXCEPT !.pc[t] = IF t = "main" THEN "join" ELSE "exited"]

\* sync_thread.join(); hb_thread.join(); then the final g_audit_log.sync()
\* takes the mutex.
main_join_and_final_sync ==
    /\ mx.pc["main"] = "join"
    /\ ~Suspended("main")
    /\ mx.pc["sync"] = "exited" /\ mx.pc["hb"] = "exited"
    /\ mx.owner = "none"
    /\ mx' = [mx EXCEPT !.owner = "main", !.pc["main"] = "final_locked"]

\* SIGINT / SIGTERM is delivered on thread t, wherever it is.
deliver_signal(t) ==
    /\ mx.sig.pc = "none"
    /\ mx.pc[t] # "exited"
    /\ mx' = [mx EXCEPT !.sig = [thread |-> t, pc |-> "cas"]]

\* signal_shutdown: compare_exchange_strong(false, true) succeeds and the
\* handler goes on to the registered finalizer.
handler_cas ==
    /\ mx.sig.pc = "cas"
    /\ mx' = [mx EXCEPT !.flag = TRUE, !.sig.pc = "finalizer"]

\* What locking a std::mutex its own thread holds can do: block forever,
\* or fail with resource_deadlock_would_occur inside a noexcept function.
RelockOutcomes == {"deadlocked", "terminated"}

\* The finalizer, g_audit_log.sync(), takes the mutex: it gets it when it
\* is free, waits while another thread holds it, and relocks it when the
\* interrupted thread itself holds it.
handler_finalizer_lock ==
    /\ mx.sig.pc = "finalizer"
    /\ \/ /\ mx.owner = "none"
          /\ mx' = [mx EXCEPT !.owner = "handler", !.sig.pc = "syncing"]
       \/ /\ mx.owner = mx.sig.thread
          /\ \E outcome \in RelockOutcomes :
                mx' = [mx EXCEPT !.sig.pc = outcome]

\* The finalizer's sync is done; the handler returns to the thread.
handler_return ==
    /\ mx.sig.pc = "syncing"
    /\ mx' = [mx EXCEPT !.owner = "none", !.sig.pc = "returned"]

probeVars == <<obs, fp, roll, mx>>

ProbeInit == ObsInit /\ FpInit /\ RollInit /\ MxInit

auxVars == <<idgen, shut, capper, logfile>>

AuxInit ==
    GenInit /\ ShutInit /\ CapperInit /\ LogFileInit /\ ProbeInit

vars ==
    <<ringVars, calVars, poeVars, auditVars, rmeVars, adeVars, auxVars,
      probeVars>>


\* A step of the queue alone: the rest of the process does not move.
OnRing(A) == A /\ UNCHANGED <<calVars, poeVars, auditVars, rmeVars,
                                adeVars, auxVars, probeVars>>

\* A step of the connector: the execution engine does not move.
OnCal(A) == A /\ UNCHANGED <<poeVars, auditVars, rmeVars,
                                adeVars, auxVars, probeVars>>

\* A step of the execution engine: queue and connector do not move.
OnPoe(A) == A /\ UNCHANGED <<ringVars, calVars, auditVars, rmeVars,
                                adeVars, auxVars, probeVars>>

\* A step of a user of the audit log: queue and connector do not move.
OnAudit(A) == A /\ UNCHANGED <<ringVars, calVars, rmeVars,
                                adeVars, auxVars, probeVars>>

\* A step of the risk engine: nothing else moves.
OnRme(A) == A /\ UNCHANGED <<ringVars, calVars, poeVars, auditVars,
                                adeVars, auxVars, probeVars>>

\* A step of the analytics engine: nothing else moves.
OnAde(A) ==
    A /\ UNCHANGED <<ringVars, calVars, poeVars, auditVars, rmeVars, auxVars,
                     probeVars>>

\* A step of a caller of generate(): only the generator moves.
OnGen(A) ==
    A /\ UNCHANGED <<ringVars, calVars, shutdown_requested_, audit, main,
                     sync_pc, hb_pc, metrics, wire, events, auditVars,
                     rmeVars, adeVars, shut, capper, logfile, probeVars>>

\* A step of a user of the ShutdownManager: only the manager moves.
OnShutdown(A) ==
    A /\ UNCHANGED <<ringVars, calVars, counter_, audit, main, sync_pc, hb_pc,
                     metrics, wire, events, auditVars, rmeVars, adeVars,
                     idgen, capper, logfile, probeVars>>

\* A step of a user of a ZScoreCapper: only the capper moves.
OnCapper(A) ==
    A /\ UNCHANGED <<ringVars, calVars, poeVars, auditVars, rmeVars, adeVars,
                     idgen, shut, logfile, probeVars>>

\* A step on the audit log file: only the file and its object move.
OnLogFile(A) ==
    A /\ UNCHANGED <<ringVars, calVars, poeVars, auditVars, rmeVars, adeVars,
                     idgen, shut, capper, probeVars>>

RingOnlyInit ==
    RingInit /\ CalInit /\ PoeState(FALSE) /\ DriverInit /\ RmeInit
    /\ AdeState(<<>>) /\ AuxInit

\* One producer with try_push / push_blocking, one consumer with try_pop /
\* pop_blocking.
PushPopNext ==
    \/ \E b \in BOOLEAN : OnRing(push_call("producer", b))
    \/ OnRing(try_push_start("producer"))
    \/ OnRing(try_push_refresh("producer"))
    \/ OnRing(try_push_write_begin("producer"))
    \/ OnRing(try_push_write_end("producer"))
    \/ OnRing(try_push_publish("producer"))
    \/ \E b \in BOOLEAN : OnRing(pop_call(b))
    \/ OnRing(try_pop_start)
    \/ OnRing(try_pop_refresh)
    \/ OnRing(try_pop_read_begin)
    \/ OnRing(try_pop_read_end)
    \/ OnRing(try_pop_advance)

SpecPushPop == RingOnlyInit /\ [][PushPopNext]_vars

\* A step of the queue with the observer watching, or of the observer.
OnObserved(A) ==
    Observed(A) /\ UNCHANGED <<calVars, poeVars, auditVars, rmeVars, adeVars,
                               auxVars, fp, roll, mx>>

OnObserver(A) ==
    A /\ UNCHANGED <<calVars, poeVars, auditVars, rmeVars, adeVars, auxVars,
                     fp, roll, mx>>

\* One producer with try_push, one consumer with try_pop, and a third
\* thread that calls the capacity queries.
ApproxNext ==
    \/ OnObserved(push_call("producer", FALSE))
    \/ OnObserved(try_push_start("producer"))
    \/ OnObserved(try_push_refresh("producer"))
    \/ OnObserved(try_push_write_begin("producer"))
    \/ OnObserved(try_push_write_end("producer"))
    \/ OnObserved(try_push_publish("producer"))
    \/ OnObserved(pop_call(FALSE))
    \/ OnObserved(try_pop_start)
    \/ OnObserved(try_pop_refresh)
    \/ OnObserved(try_pop_read_begin)
    \/ OnObserved(try_pop_read_end)
    \/ OnObserved(try_pop_advance)
    \/ \E query \in {"size", "empty", "full"} : OnObserver(approx_call(query))
    \/ OnObserver(size_approx_load_head)
    \/ OnObserver(size_approx_load_tail)

SpecApprox == RingOnlyInit /\ [][ApproxNext]_vars

\* An evaluation of one FixedPoint expression: nothing else moves.
OnFixed(A) ==
    A /\ UNCHANGED <<ringVars, calVars, poeVars, auditVars, rmeVars, adeVars,
                     auxVars, obs, roll, mx>>

FixedNext ==
    \/ \E a, b, c \in FpEnds : OnFixed(add3_call(a, b, c))
    \/ \E a, b \in FpSamples, build \in FpBuilds :
          OnFixed(mul_call(a, b, build))
    \/ \E a, b \in FpSamples : OnFixed(minmax_call(a, b))

SpecFixed == RingOnlyInit /\ [][FixedNext]_vars

\* A caller of RollingStats::update: nothing else moves.
OnRoll(A) ==
    A /\ UNCHANGED <<ringVars, calVars, poeVars, auditVars, rmeVars, adeVars,
                     auxVars, obs, fp, mx>>

RollNext == \E new_val \in RollPrices : OnRoll(roll_update(new_val))

SpecRoll == RingOnlyInit /\ [][RollNext]_vars

\* A step of the execution engine's threads or of the signal handler.
OnMx(A) ==
    A /\ UNCHANGED <<ringVars, calVars, poeVars, auditVars, rmeVars, adeVars,
                     auxVars, obs, fp, roll>>

ThreadStep(t) ==
    \/ OnMx(audit_lock(t))
    \/ OnMx(audit_unlock(t))
    \/ OnMx(loop_exit(t))

HandlerStep ==
    \/ OnMx(handler_cas)
    \/ OnMx(handler_finalizer_lock)
    \/ OnMx(handler_return)

SignalNext ==
    \/ \E t \in PoeThreads : ThreadStep(t)
    \/ OnMx(main_join_and_final_sync)
    \/ \E t \in PoeThreads : OnMx(deliver_signal(t))
    \/ HandlerStep

\* Fair scheduling of the three threads and of the handler; the signal is
\* the environment's.
SpecSignal ==
    /\ RingOnlyInit
    /\ [][SignalNext]_vars
    /\ \A t \in PoeThreads : WF_vars(ThreadStep(t))
    /\ WF_vars(OnMx(main_join_and_final_sync))
    /\ WF_vars(HandlerStep)

\* The whole public interface: the consumer may also call try_pop_batch.
RingNext ==
    \/ PushPopNext
    \/ \E m \in 1 .. MaxBatch : OnRing(pop_batch_call(m))
    \/ OnRing(try_pop_batch_start)
    \/ OnRing(try_pop_batch_copy)
    \/ OnRing(try_pop_batch_advance)

SpecRing == RingOnlyInit /\ [][RingNext]_vars

\* The connector process: the socket thread and the heartbeat thread both
\* run try_push on g_cal_to_ade_buffer, analytics drains it in batches.
CalNext ==
    \/ \E parses, valid \in BOOLEAN : OnCal(process_message(parses, valid))
    \/ OnCal(process_message_return)
    \/ OnCal(heartbeat_thread_push)
    \/ \E t \in PushThreads : OnRing(try_push_start(t))
    \/ \E t \in PushThreads : OnRing(try_push_refresh(t))
    \/ \E t \in PushThreads : OnRing(try_push_write_begin(t))
    \/ \E t \in PushThreads : OnRing(try_push_write_end(t))
    \/ \E t \in PushThreads : OnRing(try_push_publish(t))
    \/ OnRing(process_batch)
    \/ OnRing(try_pop_batch_start)
    \/ OnRing(try_pop_batch_copy)
    \/ OnRing(try_pop_batch_advance)

SpecCal == RingOnlyInit /\ [][CalNext]_vars

\* The execution engine process: the main thread, the fsync thread, the
\* heartbeat thread, signals, the kernel and the exchange.
PoeOnlyInit ==
    RingInit /\ CalInit /\ PoeInit /\ DriverInit /\ RmeInit /\ AdeState(<<>>)
    /\ AuxInit

PoeNext ==
    \/ OnPoe(process_order_log_order)
    \/ \E ok \in BOOLEAN : OnPoe(process_order_send(ok))
    \/ OnPoe(process_order_log_result)
    \/ OnPoe(main_shutdown_message)
    \/ OnPoe(main_loop_exit)
    \/ OnPoe(main_join_sync)
    \/ OnPoe(main_join_hb)
    \/ OnPoe(main_final_sync)
    \/ OnPoe(main_return)
    \/ OnPoe(fsync_thread_check)
    \/ OnPoe(fsync_thread_sync)
    \/ OnPoe(heartbeat_thread_check)
    \/ OnPoe(heartbeat_thread_flush)
    \/ OnPoe(signal_shutdown)
    \/ OnPoe(os_writeback)
    \/ \E kind \in {"ACK", "FILL", "REJECT"}, id \in AcceptedIds :
          OnPoe(on_exchange_event(kind, id))

SpecPoe == PoeOnlyInit /\ [][PoeNext]_vars

\* The execution engine under a fair scheduler: each of its three threads
\* keeps taking steps while it has one to take.  Signals and messages are
\* the environment's and owe nothing.
MainThreadStep ==
    \/ OnPoe(main_loop_exit)
    \/ OnPoe(main_join_sync)
    \/ OnPoe(main_join_hb)
    \/ OnPoe(main_final_sync)
    \/ OnPoe(main_return)

SyncThreadStep == OnPoe(fsync_thread_check) \/ OnPoe(fsync_thread_sync)

HeartbeatThreadStep ==
    OnPoe(heartbeat_thread_check) \/ OnPoe(heartbeat_thread_flush)

SpecPoeFair ==
    /\ SpecPoe
    /\ WF_vars(MainThreadStep)
    /\ WF_vars(SyncThreadStep)
    /\ WF_vars(HeartbeatThreadStep)

\* One AuditLog object used by a logging thread and a syncing thread.
AuditOnlyInit ==
    RingInit /\ CalInit /\ AuditInit /\ RmeInit /\ AdeState(<<>>) /\ AuxInit

AuditNext ==
    \/ \E kind \in {"ORDER", "SENT", "ACK", "FILL", "REJECT", "ERROR"} :
          \E text \in AuditTexts(OrderId(0)) :
             OnAudit(audit_log_call(kind, OrderId(0), text))
    \/ OnAudit(audit_flush_call)
    \/ OnAudit(audit_sync_call)

SpecAudit == AuditOnlyInit /\ [][AuditNext]_vars

\* The risk engine process: the risk thread, the heartbeat thread, the
\* callers of record_pnl and of the breaker's trip.
TripNext ==
    \/ \E symbol_id \in 0 .. MAX_SYMBOLS - 1, raw \in SignalRaws,
          direction \in SignalDirections :
          OnRme(process_signal_check(symbol_id, raw, direction))
    \/ OnRme(process_signal_publish)
    \/ \E pnl \in {-2, -1} : OnRme(record_pnl(pnl))
    \/ OnRme(heartbeat_thread_tick)
    \/ \E t \in TripThreads : OnRme(trip_call(t, "MANUAL_HALT"))
    \/ \E t \in TripThreads : OnRme(trip_store_reason(t))

SpecTrip == RingOnlyInit /\ [][TripNext]_vars

\* The same with callers of the breaker's reset.
RmeNext ==
    \/ TripNext
    \/ \E t \in TripThreads : OnRme(reset_call(t))
    \/ \E t \in TripThreads : OnRme(reset_store_reason(t))

SpecRme == RingOnlyInit /\ [][RmeNext]_vars

\* The position tracker used directly: update_position, record_pnl, reset.
TrackerNext ==
    \/ \E symbol_id \in 0 .. MAX_SYMBOLS - 1, delta \in {-3, -1, 1, 2} :
          OnRme(update_position_call(symbol_id, delta))
    \/ \E pnl \in {-2, -1, 1} : OnRme(record_pnl(pnl))
    \/ OnRme(tracker_reset)

SpecTracker == RingOnlyInit /\ [][TrackerNext]_vars

\* The risk engine with its heartbeat thread scheduled fairly.
SpecRmeFair ==
    /\ SpecTrip
    /\ WF_vars(OnRme(heartbeat_thread_tick))
    /\ WF_vars(OnRme(trip_store_reason("heartbeat")))

\* The analytics engine and its ungated twin, fed ticks and heartbeats.
AdeOnlyInit ==
    RingInit /\ CalInit /\ PoeState(FALSE) /\ DriverInit /\ RmeInit
    /\ AdeInit /\ AuxInit

AdeNext ==
    \/ \E symbol_id \in 0 .. MAX_SYMBOLS - 1, price \in TickPrices :
          OnAde(process_market_data(symbol_id, price))
    \/ OnAde(forward_heartbeat)

SpecAde == AdeOnlyInit /\ [][AdeNext]_vars

\* Threads calling generate() on one OrderIDGenerator.
GenNext ==
    \/ \E t \in GenThreads : OnGen(generate_fetch_add(t))
    \/ \E t \in GenThreads : OnGen(generate_return(t))

SpecGen == RingOnlyInit /\ [][GenNext]_vars

\* The shutdown manager: registrations, and invocations of signal_shutdown
\* from the signal handler and from another thread.
ShutdownNext ==
    \/ \E throws \in BOOLEAN : OnShutdown(register_handler(throws))
    \/ \E t \in ShutdownThreads : OnShutdown(signal_shutdown_cas(t))
    \/ \E t \in ShutdownThreads : OnShutdown(signal_shutdown_step(t))

SpecShutdown == RingOnlyInit /\ [][ShutdownNext]_vars

\* A caller that reconfigures a ZScoreCapper and caps z-scores with it.
CapperNext ==
    \/ \E max_z \in CapValues : OnCapper(set_max_z(max_z))
    \/ \E z_score \in ZValues : OnCapper(cap_call(z_score))

SpecCapper == RingOnlyInit /\ [][CapperNext]_vars

\* Runs of the engine one after another on the same audit log file.
LogFileNext ==
    \/ OnLogFile(AuditLog_ctor)
    \/ \E ev \in {"ORDER", "SENT", "ERROR"} : OnLogFile(AuditLog_log(ev))
    \/ OnLogFile(AuditLog_flush)
    \/ OnLogFile(AuditLog_dtor)

SpecLogFile == RingOnlyInit /\ [][LogFileNext]_vars

\* ------------------------------------------------------ RingBuffer claims

\* C1: with one producer calling try_push and one consumer calling try_pop,
\* the items returned by successful pops are a prefix of the items accepted
\* by successful pushes, in push order (no loss, no duplicate), and every
\* accepted item not yet popped is still whole in its slot, also after the
\* indices have passed the capacity boundary and slots are reused.
C1_PopsArePrefixOfPushes ==
    /\ Len(popped) <= Len(pushed)
    /\ \A i \in 1 .. Len(popped) : popped[i] = pushed[i]
    /\ \A i \in Len(popped) + 1 .. Len(pushed) :
          buffer_[Slot((i - 1) % SizeMod)] = pushed[i]

\* All offered items went through, the slots were reused and the index
\* register has wrapped.
C1_Witness ==
    /\ Len(popped) = MaxPush
    /\ popped = pushed
    /\ Len(pushed) > N
    /\ head_ < Len(pushed)

\* C2: try_push returns false iff the logical size (producer index minus
\* consumer index) equals the capacity, and try_pop returns false iff the
\* logical size is 0, in any history of try_push, try_pop and try_pop_batch.
C2_FalseIffFullOrEmpty ==
    /\ (pushDec.ok = FALSE) <=> (pushDec.size = N)
    /\ (popDec.ok = FALSE) <=> (popDec.size = 0)

\* C3: the producer index minus the consumer index lies in [0, capacity],
\* and the consumer never passes the producer.
C3_IndexDistanceInRange ==
    /\ Sub(head_, tail_) \in 0 .. N
    /\ Len(popped) <= Len(pushed)

\* C4: with the element copy and the index store as separate steps, the
\* producer's copy into a slot and the consumer's copy out of the same
\* physical slot never overlap: the consumer copies a slot only when the
\* element store into it is complete, and the producer copies into a slot
\* only when the consumer has published the index past its previous element.
C4_NoOverlapOnSlot ==
    /\ ~(/\ prod["producer"].pc = "writing"
         /\ cons.pc \in {"read", "reading"}
         /\ Slot(prod["producer"].head) = Slot(cons.tail))
    /\ cons.pc \in {"read", "reading"} => buffer_[Slot(cons.tail)] # TORN
    /\ cons.pc \in {"reading", "advance"} => cons.item = Len(popped) + 1
    /\ prod["producer"].pc \in {"write", "writing"} =>
          Sub(prod["producer"].head, tail_) < N

\* Both copies are in progress at once, on different slots, after reuse.
C4_Witness ==
    /\ prod["producer"].pc = "writing"
    /\ cons.pc = "reading"
    /\ Slot(prod["producer"].head) # Slot(cons.tail)
    /\ Len(pushed) >= N

\* C5: try_pop_batch(dst, max) removes exactly min(available, max) items,
\* available being the number of published unconsumed items at the call,
\* and copies them to dst in push order.
C5_BatchTakesMinInPushOrder ==
    /\ batchDec.count = Min(batchDec.avail, batchDec.max)
    /\ (cons.pc = "bcopy" /\ Len(popped) + cons.i <= Len(pushed)) =>
          cons.out = SubSeq(pushed, Len(popped) + 1, Len(popped) + cons.i)
    /\ cons.pc = "bcopy" => Len(popped) + cons.to_pop <= Len(pushed)

\* ------------------------------------------------------- connector claims

\* C6: every queue has exactly one producer thread: all push calls on
\* g_cal_to_ade_buffer come from a single thread, and the connector's tick
\* path and its heartbeat thread are never inside try_push at the same time.
C6_SingleProducerPerQueue ==
    /\ Cardinality({t \in PushThreads : prod[t].used}) <= 1
    /\ ~(prod["producer"].pc # "idle" /\ prod["heartbeat"].pc # "idle")

C8_OrderLoggedBeforeSend ==
    \A w \in 1 .. Len(wire) :
        \E i \in 1 .. Len(audit.file) : /\ audit.file[i].ev = "ORDER"
                                        /\ audit.file[i].id = wire[w][1]

\* C9: an order is handed to the transport at most once, and exactly once
\* when process_order is through with it; then a successful send has left one
\* SENT record and no SEND_FAILED record, a failed send one ERROR SEND_FAILED
\* record and no SENT record, and the two counters count the successes and
\* the failures.
C9_OneSendOneOutcome ==
    LET Sends(id) == {w \in 1 .. Len(wire) : wire[w][1] = id}
        Recs(ev, id) == {i \in 1 .. Len(audit.file) :
                            audit.file[i].ev = ev /\ audit.file[i].id = id}
        Failed(id) == {i \in Recs("ERROR", id) :
                            audit.file[i].msg = "SEND_FAILED"}
        Issued == {OrderId(c) : c \in 0 .. counter_ - 1}
        Through == {id \in Issued : main.pc \in {"send", "sent"} => id # main.id}
        Ok(id) == \E w \in Sends(id) : wire[w][2]
    IN /\ \A id \in Issued : Cardinality(Sends(id)) <= 1
       /\ \A id \in Through :
             /\ Cardinality(Sends(id)) = 1
             /\ Ok(id) => /\ Cardinality(Recs("SENT", id)) = 1
                          /\ Failed(id) = {}
             /\ ~Ok(id) => /\ Cardinality(Failed(id)) = 1
                           /\ Recs("SENT", id) = {}
       /\ metrics.sent = Cardinality({id \in Through : Ok(id)})
       /\ metrics.failed = Cardinality({id \in Through : ~Ok(id)})

\* C10: once the process has terminated cleanly, every record appended to
\* the audit log is on stable storage.
C10_AllRecordsDurableAtExit ==
    main.pc = "exited" => audit.durable = Len(audit.file)

\* C11: when sync() returns, every record appended before the call is on
\* stable storage.
C11_SyncReachesStableStorage ==
    [][audit'.sync_count_ # audit.sync_count_
          => audit'.durable >= Len(audit.file)]_vars

\* C12: fewer than FLUSH_INTERVAL appended records are still in the
\* user-space buffer, whatever flush() and sync() calls come in between, and
\* the pending counter stays below FLUSH_INTERVAL and covers them.
C12_ImplicitFlushEveryInterval ==
    /\ Len(audit.file) - audit.flushed < FLUSH_INTERVAL
    /\ audit.pending_writes_ < FLUSH_INTERVAL
    /\ Len(audit.file) - audit.flushed <= audit.pending_writes_

\* C12 happens: with no flush(), sync() or REJECT so far, the record that is
\* number FLUSH_INTERVAL has emptied the user-space buffer.
C12_Witness ==
    /\ driver.flushes = 0
    /\ audit.sync_count_ = 0
    /\ \A i \in 1 .. Len(audit.file) : audit.file[i].ev # "REJECT"
    /\ Len(audit.file) = FLUSH_INTERVAL
    /\ audit.flushed = FLUSH_INTERVAL
    /\ audit.pending_writes_ = 0

\* C13: when log_reject returns on an open log, the REJECT record and every
\* record appended before it have left the user-space buffer.
C13_RejectFlushedAtOnce ==
    [][(driver'.calls # driver.calls /\ driver'.last = "REJECT")
          => /\ Len(audit'.file) = Len(audit.file) + 1
             /\ audit'.file[Len(audit'.file)].ev = "REJECT"
             /\ audit'.flushed = Len(audit'.file)]_vars

\* C13 happens: log_reject has returned with writes pending, and nothing is
\* left in the user-space buffer.
C13_Witness ==
    /\ driver.last = "REJECT"
    /\ audit.pending_writes_ >= AuditBurst
    /\ audit.file[Len(audit.file)].ev = "REJECT"
    /\ audit.flushed = Len(audit.file)

\* C14: a log call whose message is cut, or whose line does not fit the
\* line buffer, writes one record of at most ENTRY_SIZE bytes and adds one
\* to the truncation counter, the record ending in the marker when the
\* line did not fit; any other call writes the line as formatted and leaves
\* the counter alone.
C14_TruncationCounted ==
    [][driver'.calls # driver.calls =>
          LET rec == audit'.file[Len(audit'.file)]
              given == IF driver'.last \in {"REJECT", "ERROR"}
                       THEN driver'.text ELSE rec.msg
              formatted == LineLen(driver'.last, rec.id, given)
              cut == formatted >= ENTRY_SIZE \/ rec.msg # given
          IN /\ Len(audit'.file) = Len(audit.file) + 1
             /\ rec.ev = driver'.last
             /\ rec.len <= ENTRY_SIZE
             /\ cut => audit'.truncation_count_ = audit.truncation_count_ + 1
             /\ formatted >= ENTRY_SIZE => rec.trunc
             /\ ~cut => /\ audit'.truncation_count_ = audit.truncation_count_
                        /\ rec.len = formatted
                        /\ ~rec.trunc]_vars

\* C15: entries_logged() is the number of records appended to the log, and
\* flush() and sync() leave it unchanged.
C15_EntriesLoggedCountsRecords ==
    audit.entries_logged_ = Len(audit.file)

C17_TrippedBreakerRejectsAndChangesNothing ==
    [][(rme'.g_signals_received # rme.g_signals_received /\ breaker.tripped_)
          => /\ rme'.g_orders_approved = rme.g_orders_approved
             /\ rme'.g_orders_rejected = rme.g_orders_rejected + 1
             /\ rme'.g_sequence = rme.g_sequence
             /\ rme'.pc = "idle"
             /\ rme_out' = rme_out
             /\ tracker' = tracker]_vars

\* C17 happens: the last signal was rejected on a tripped breaker although
\* it passes every limit, after an order had been approved.
C17_Witness ==
    /\ rme.pc = "idle"
    /\ rme.saw_tripped
    /\ rme.g_orders_rejected = 1
    /\ rme.g_orders_approved = 1
    /\ rme.order_value \in {-1, 1}
    /\ tracker.total_exposure_ = 1
    /\ tracker.daily_pnl_ > -max_daily_loss

\* C18: the breaker is a latch: only a reset() call clears it, and every
\* signal whose processing starts while it is tripped is rejected.
C18_BreakerLatchedUntilReset ==
    [][/\ (breaker.tripped_ /\ ~breaker'.tripped_)
             => \E t \in TripThreads : /\ trippers[t].pc = "idle"
                                       /\ trippers'[t].pc = "reset_reason"
       /\ ~(breaker.tripped_ /\ rme.pc = "idle" /\ rme'.pc = "approved")]_vars

\* C18 happens: the heartbeat has tripped the breaker for the daily loss,
\* PnL has moved since, and the signals that came were rejected.
C18_Witness ==
    /\ breaker.tripped_
    /\ breaker.reason_ = "DAILY_LOSS_BREACH"
    /\ tracker.daily_pnl_ < -max_daily_loss
    /\ rme.saw_tripped
    /\ rme.g_orders_rejected = MaxSignals
    /\ rme_out = <<>>

\* C19: tripping is idempotent: at most one trip call at a time has won the
\* exchange, and once no store of a reason is pending the recorded reason is
\* the winner's, whatever trip calls came after it.
C19_TripIdempotentOneWinner ==
    /\ Cardinality({t \in TripThreads : trippers[t].pc = "trip_reason"}) <= 1
    /\ breaker.tripped_ <=> breaker.claimed # "NONE"
    /\ (\A t \in TripThreads : trippers[t].pc # "trip_reason")
          => breaker.reason_ = breaker.claimed

\* C19 happens: the breaker was tripped by the operator, the heartbeat then
\* called trip for the daily loss, and the operator's reason stands.
C19_Witness ==
    /\ breaker.tripped_
    /\ breaker.reason_ = "MANUAL_HALT"
    /\ trippers["heartbeat"] = [pc |-> "idle", reason |-> "DAILY_LOSS_BREACH"]
    /\ trippers["operator"].pc = "idle"

\* C20: if the daily PnL comes to stay at a value at which the daily-loss
\* check rejects signals, the breaker is eventually tripped.
C20_DailyLossEventuallyTrips ==
    <>[](tracker.daily_pnl_ <= -max_daily_loss) => <>breaker.tripped_

\* ------------------------------------------------- claims on data contracts

\* C21: every OrderRequest on the risk-to-execution queue has side +1 or
\* -1; a neutral signal (direction 0) never results in an order.
C21_PublishedSideIsBuyOrSell ==
    \A i \in 1 .. Len(rme_out) : rme_out[i].side \in {-1, 1}

C23_DailyPnlIsSumOfSlotPnl ==
    tracker.daily_pnl_ = SlotPnl(tracker, MAX_SYMBOLS)

\* C24: the ids generate() returns are distinct as long as no more ids have
\* been issued than the counter has values, whatever threads the calls come
\* from, and each id is (startup second << counter width) | counter value.
C24_OrderIdsDistinctUntilWrap ==
    /\ idgen.calls <= 2 ^ CounterBits
          => \A i, j \in 1 .. Len(idgen.issued) :
                i # j => idgen.issued[i] # idgen.issued[j]
    /\ \A i \in 1 .. Len(idgen.issued) :
          /\ idgen.issued[i] \div (2 ^ CounterBits) = StartupTs
          /\ idgen.issued[i] % (2 ^ CounterBits) < idgen.calls

\* C24 happens: every counter value has been handed out, the two threads
\* having overlapped: the id with the larger count was returned first.
C24_Witness ==
    /\ Len(idgen.issued) = 2 ^ CounterBits
    /\ idgen.calls = 2 ^ CounterBits
    /\ \E i \in 1 .. Len(idgen.issued) - 1 :
          idgen.issued[i] > idgen.issued[i + 1]

C30_HeaderOnceAppendOnly ==
    [][/\ Len(logfile'.lines) >= Len(logfile.lines)
       /\ SubSeq(logfile'.lines, 1, Len(logfile.lines)) = logfile.lines
       /\ logfile'.lines # <<>>
             => /\ Len(logfile'.lines) >= Len(AuditHeader)
                /\ SubSeq(logfile'.lines, 1, Len(AuditHeader)) = AuditHeader
                /\ \A i \in Len(AuditHeader) + 1 .. Len(logfile'.lines) :
                      ~logfile'.lines[i].header]_vars

\* --------------------------------------------- claims on behaviour under load

\* C31: a capacity query made while producer and consumer run returns a
\* value that was the logical size of the queue at some moment during the
\* call, hence between 0 and the capacity; empty_approx and full_approx
\* answer for that value.
C31_SizeApproxIsARecentSize ==
    (obs.pc = "idle" /\ obs.calls > 0)
       => /\ obs.size \in obs.seen
          /\ obs.size >= 0 /\ obs.size <= N
          /\ obs.query = "size" => obs.ret = obs.size
          /\ obs.query = "empty" => (obs.ret = 1 <=> obs.size = 0)
          /\ obs.query = "full" => (obs.ret = 1 <=> obs.size = N)

\* C32: with overflow wrapping in the register, (a + b) + c and a + (b + c)
\* have the same raw value for all a, b, c, and when a + b, b + c and
\* a + b + c stay in range that value is the mathematical sum.
C32_AdditionAssociative ==
    fp.op = "add3"
       => /\ fp.r1 = fp.r2
          /\ ({fp.a + fp.b, fp.b + fp.c, fp.a + fp.b + fp.c} \subseteq FpRange)
                => fp.r1 = fp.a + fp.b + fp.c

\* An intermediate sum overflowed, in one grouping only.
C32_Witness ==
    /\ fp.op = "add3"
    /\ fp.a + fp.b > FpMax
    /\ fp.b + fp.c \in FpRange
    /\ fp.a + fp.b + fp.c \in FpRange
    /\ fp.r1 = fp.a + fp.b + fp.c

\* C33: a * b equals the full-width product divided by the scale and
\* truncated toward zero, for operands of either sign whose true result
\* fits in the register, also when the product itself does not fit.
C33_MultiplicationMatchesReference ==
    (fp.op = "mul" /\ CDiv(fp.a * fp.b, PRICE_SCALE) \in FpRange)
       => fp.r1 = CDiv(fp.a * fp.b, PRICE_SCALE)

\* A negative product too wide for the register, with a result that fits
\* and is not a whole multiple of the scale, in the fallback build.
C33_Witness ==
    /\ fp.op = "mul"
    /\ fp.build = "fallback"
    /\ fp.a < 0 /\ fp.b > 0
    /\ fp.a * fp.b < FpMin
    /\ CRem(fp.a * fp.b, PRICE_SCALE) # 0
    /\ fp.r1 = CDiv(fp.a * fp.b, PRICE_SCALE)
    /\ fp.r1 < -1

\* C39: min(a, b) is the smaller and max(a, b) the larger raw value, for
\* every pair of raw values, also of opposite sign with a - b out of range.
C39_MinMaxReturnSmallerAndLarger ==
    fp.op = "minmax"
       => /\ fp.r1 = IF fp.a < fp.b THEN fp.a ELSE fp.b
          /\ fp.r2 = IF fp.a < fp.b THEN fp.b ELSE fp.a

\* C40: after any sequence of update calls with validated prices, sum_ and
\* sum_sq_ are the exact sum and sum of squares of the last min(count, N)
\* observations, variance() is not negative, and stddev_approx() is 0 only
\* when the observations in the window have variance 0.
C40_RollingSumsExact ==
    LET w == RollWindowValues
        n == Len(w)
    IN /\ roll.stats.sum_ = SeqSum(w)
       /\ roll.stats.sum_sq_ = SeqSumSq(w)
       /\ RollingStats_variance(roll.stats) >= 0
       /\ (n >= 2 /\ RollingStats_stddev_approx(roll.stats) = 0)
             => \A i, j \in 1 .. n : w[i] = w[j]

\* C34: once the execution engine has popped a SHUTDOWN message, under fair
\* scheduling the main loop has exited, the sync and heartbeat threads exit
\* and are joined, the final sync is made and the process ends.
C34_ShutdownMessageTerminates ==
    (main.pc = "join_sync" /\ ~shutdown_requested_)
       ~> (main.pc = "exited" /\ sync_pc = "done" /\ hb_pc = "done")

\* C35: a termination signal delivered at any point, also on a thread that
\* holds the audit mutex, leads to the flag set, the finalizer returned,
\* every loop left and the process ended; nobody waits for the mutex
\* forever.
C35_SignalLeadsToShutdown ==
    (mx.sig.pc # "none")
       ~> /\ mx.flag
          /\ mx.sig.pc = "returned"
          /\ \A t \in PoeThreads : mx.pc[t] = "exited"

\* C36: whenever no trip or reset call is in progress, is_tripped() is true
\* exactly when get_reason() is not NONE.
C36_FlagAndReasonAgree ==
    (\A t \in TripThreads : trippers[t].pc = "idle")
        => (is_tripped(breaker) <=> breaker.reason_ # "NONE")

\* Sum of order_value over the orders on the queue for one symbol.
RECURSIVE OrderValueSum(_, _)
OrderValueSum(q, symbol_id) ==
    IF q = <<>> THEN 0
    ELSE OrderValueSum(Tail(q), symbol_id)
         + (IF Head(q).symbol_id = symbol_id THEN Head(q).order_value ELSE 0)

\* C37: between signals, every symbol's tracked position is the sum of
\* order_value over the orders placed on the downstream queue for it, and
\* every approved signal has put one order there.
C37_PositionsMatchPublishedOrders ==
    rme.pc = "idle"
        => /\ \A i \in 0 .. MAX_SYMBOLS - 1 :
                 get_position(tracker, i) = OrderValueSum(rme_out, i)
           /\ Len(rme_out) = rme.g_sequence

\* Sum of |quantity| over the slots below n.
RECURSIVE SlotExposure(_, _)
SlotExposure(tr, n) ==
    IF n = 0 THEN 0 ELSE SlotExposure(tr, n - 1) + Abs(tr.positions_[n - 1])

====
